---------------------------- MODULE Spec2Model ----------------------------
(***************************************************************************)
(* A model of kronixpy's toolchain builder:                                *)
(*   - utils/__init__.py      save_env (the environment sandbox)           *)
(*   - utils/mutex.py         Mutex.mapget (the shared step counter)       *)
(*   - utils/semver.py        sort                                         *)
(*   - utils/filetracker.py   _compare_depth, _FileList, FileTracker       *)
(*   - toolchain/kernel/build.py  Step._do_call, download_latest,          *)
(*                            _untar_or_unzip, KernelToolchainBuilder, main *)
(* Each part has its own specification (SpecSandbox, SpecPipeline,         *)
(* SpecCounter, SpecResolver, SpecTracker); the variables of the other     *)
(* parts stay at their initial value.                                      *)
(***************************************************************************)
EXTENDS Integers, Sequences, FiniteSets, TLC

VARIABLES
    \* ---- the ambient process state save_env works on
    environ,        \* the mapping bound to the name os.environ
    environLive,    \* TRUE while os.environ is the os._Environ object (writes call putenv)
    procEnv,        \* the process's real environment (what putenv wrote, what a child inherits)
    cwd,            \* the current working directory
    scopes,         \* the save_env scopes entered and not yet exited, innermost last
    lastScope,      \* history: the ambient state before and after the last scope that exited
    \* ---- the shared step counter, _STEP_COUNT: Mutex[int]
    stepCount,      \* _STEP_COUNT._value
    mtxHolder,      \* the thread holding _STEP_COUNT._mtx, or None
    thr,            \* per thread: where it is in mapget, its temporaries, the steps it has left
    logged,         \* history: the step numbers logged so far, in order
    firstCount,     \* history: the counter's value before the first step (the claim's c)
    wentDown,       \* history: TRUE once a store lowered the counter
    \* ---- latest-version resolution
    listing,        \* the names of the remote listing (link texts, or NLST names)
    listingPkg,     \* the component whose version is resolved
    resolved,       \* the outcome of the resolution
    \* ---- FileTracker and the directory it tracks
    fs,             \* the tracked directory: name -> file or directory node
    fsOps,          \* the filesystem changes made so far
    store,          \* FileTracker._persistent_db: key -> list of paths
    trkKey,         \* FileTracker._key
    trkList,        \* FileTracker._list: the snapshot start took, or NoObj
    lastStop,       \* history: the last stop call, what it compared and what it did
    spans,          \* history: per calling thread, the key and snapshot of the start it
                    \* has not yet ended with a stop, or NoObj
    lastAccess,     \* history: the last access to the store as a mapping
    dbmBackend,     \* the dbm module that dbm.open picked for the persistent file
    \* ---- one run of the toolchain builder (build.py: main)
    packages,       \* the requested components, in the order download() iterates them
    mainPc,         \* where main is: "start", "parse", "prepare", "download", "steps", "raised", "done"
    stepPc,         \* where the step in flight is, "idle" when none is
    raising,        \* the exception in flight, or None
    excs,           \* _untar_or_unzip's list `exceptions`
    steps,          \* history: one record per step started, in order
    topLog,         \* what main's except clauses logged
    exitStatus,     \* what main returned, None while it runs
    phases,         \* history: the builder methods main has called, in order
    \* ---- a KernelToolchainBuilder and the directories it works in
    layout,         \* the root directory: which of its directories exist, and their entries
    builderPkgs,    \* KernelToolchainBuilder._packages
    todoSteps,      \* the Steps the function in flight has still to call, in order
    argPkgs,        \* args.rebuild_package split on ",", <<>> when nothing was parsed
    prepPc,         \* where prepare is, "idle" when it is not called
    leftover,       \* prepare: the build subdirectories its install loop has still to visit
    prepLog,        \* history: what prepare has done, in order
    flags,          \* the builder's _cflags, _cxxflags, _env and _pathenv
    lastEnv,        \* history: the last call of make_env_for, its arguments, the builder
                    \* before it and the environment it resolved
    \* ---- the sub-step decoration of BuildAction
    actPart,        \* per member of BuildAction: its attribute _part, NoPart when it has none
    actDesc,        \* per member of BuildAction: its attribute _part_desc, or None
    invDeco,        \* history: per step invocation, its member and the decoration it set
    described       \* history: the last description produced, for which invocation, and
                    \* the decoration that invocation had set by then

sandboxVars == <<environ, environLive, procEnv, cwd, scopes, lastScope>>
counterVars == <<stepCount, mtxHolder, thr, logged, firstCount, wentDown>>
resolverVars == <<listing, listingPkg, resolved>>
trackerVars == <<fs, fsOps, store, trkKey, trkList, lastStop, spans, lastAccess, dbmBackend>>
pipelineVars == <<packages, mainPc, stepPc, raising, excs, steps, topLog, exitStatus, phases>>
prepVars == <<layout, builderPkgs, todoSteps, argPkgs, prepPc, leftover, prepLog>>
flagVars == <<flags, lastEnv>>
builderVars == <<prepVars, flagVars>>
decoVars == <<actPart, actDesc, invDeco, described>>

\* what the operations of one part leave alone
notSandbox == <<counterVars, resolverVars, trackerVars, pipelineVars, builderVars, decoVars>>
notCounter == <<sandboxVars, resolverVars, trackerVars, pipelineVars, builderVars, decoVars>>
notResolver == <<sandboxVars, counterVars, trackerVars, pipelineVars, builderVars, decoVars>>
notTracker == <<sandboxVars, counterVars, resolverVars, pipelineVars, builderVars, decoVars>>
\* a run uses the sandbox and the counter's value; it has one thread, so the
\* lock of the counter is never contended
notPipeline == <<mtxHolder, thr, logged, firstCount, wentDown, resolverVars, trackerVars,
                 builderVars, decoVars>>

None == "None"

(***************************************************************************)
(*                    utils/__init__.py : save_env                         *)
(***************************************************************************)
EnvVars == {"CC", "PATH"}
EnvVals == {"a", "b"}
Unset == "unset"
\* a full environment: every variable has a value or is unset
EnvMaps == [EnvVars -> EnvVals \cup {Unset}]
\* the environments a process is started with that are tried
StartEnvMaps == {e \in EnvMaps : e["CC"] = "a" /\ e["PATH"] # "b"}
\* an override map (a Python dict): Unset marks a variable the dict has no key for
Overrides == [EnvVars -> EnvVals \cup {Unset}]
\* the dict with no key (also what stands in for env=None, with envGiven FALSE)
NoOverride == [v \in EnvVars |-> Unset]

Dirs == {"/", "/root/src", "/root/build"}
\* the directories that exist; "/root/build" is the one a chdir can miss
ExistingDirs == {"/", "/root/src"}

\* build/<component> of the builder's root, and whether a directory exists
BuildDirectory(pkg) ==
    CASE pkg = "binutils" -> "/root/build/binutils"
      [] pkg = "nasm" -> "/root/build/nasm"
      [] pkg = "gcc" -> "/root/build/gcc"
      [] pkg = "gdb" -> "/root/build/gdb"
      [] pkg = "qemu" -> "/root/build/qemu"
      [] pkg = "limine" -> "/root/build/limine"
      [] pkg = "tmp" -> "/root/build/tmp"
      [] OTHER -> "/root/build/all"
DirExists(path) ==
    \/ path \in ExistingDirs
    \/ layout.build /\ \E pkg \in layout.buildSub : path = BuildDirectory(pkg)

\* the scopes a thread may hold at once
MaxDepth == 1

\* dict.update(env): the keys of env overwrite, the others stay
Update(e, o) == [v \in EnvVars |-> IF o[v] # Unset THEN o[v] ELSE e[v]]

Ambient == [environ |-> environ, procEnv |-> procEnv, cwd |-> cwd]

\* os.environ.update(env): on the os._Environ object every __setitem__ also
\* calls putenv; on a plain dict it changes the dict alone
EnvironUpdate(o) ==
    /\ environ' = Update(environ, o)
    /\ procEnv' = IF environLive THEN Update(procEnv, o) ELSE procEnv

\* _setup when it returns: env applied (if given), chdir done (if given);
\* base is the ambient state from before the oldest scope that is still open
Setup(envGiven, env, path) ==
    /\ path # None => DirExists(path)
    /\ IF envGiven
          THEN EnvironUpdate(env)
          ELSE UNCHANGED <<environ, procEnv>>
    /\ cwd' = IF path # None THEN path ELSE cwd
    /\ scopes' = Append(scopes,
                   [env_changed  |-> envGiven,
                    path_changed |-> path # None,
                    env_surrounding  |-> environ,
                    path_surrounding |-> cwd,
                    env |-> IF envGiven THEN env ELSE NoOverride,
                    pre |-> Ambient,
                    base |-> IF scopes = <<>> THEN Ambient ELSE scopes[1].base])
    /\ UNCHANGED <<environLive, lastScope>>

\* _setup of a scope nested in the scopes of its own thread
SetupOk(envGiven, env, path) ==
    /\ Len(scopes) < MaxDepth
    /\ Setup(envGiven, env, path)

\* what `os.environ = env_pair.surrounding` leaves behind: the name os.environ
\* is rebound to the saved plain dict; nothing is written to the process
CleanupEnviron(surrounding) ==
    /\ environ' = surrounding
    /\ environLive' = FALSE
    /\ UNCHANGED procEnv

\* _setup when os.chdir(path.resolve(strict=True)) raises: env_changed is
\* already TRUE, path_changed is not; the finally clause runs _cleanup and the
\* with body never runs
SetupRaises(envGiven, env, path) ==
    /\ path # None /\ ~DirExists(path)
    /\ IF envGiven
          THEN /\ environ' = environ       \* updated, then rebound to the saved copy
               /\ environLive' = FALSE
               /\ procEnv' = IF environLive THEN Update(procEnv, env) ELSE procEnv
          ELSE UNCHANGED <<environ, environLive, procEnv>>
    /\ UNCHANGED <<cwd, scopes>>
    /\ lastScope' = [pre |-> Ambient,
                     post |-> [environ |-> environ', procEnv |-> procEnv', cwd |-> cwd],
                     how |-> "setup_raised", env_given |-> envGiven]

\* _cleanup of the i-th open scope, whether the body returned or raised
CleanupAt(i, how) ==
    LET s == scopes[i] IN
        /\ cwd' = IF s.path_changed THEN s.path_surrounding ELSE cwd
        /\ IF s.env_changed
              THEN CleanupEnviron(s.env_surrounding)
              ELSE UNCHANGED <<environ, environLive, procEnv>>
        /\ scopes' = [j \in 1..Len(scopes) - 1 |-> IF j < i THEN scopes[j] ELSE scopes[j + 1]]
        /\ lastScope' = [pre |-> s.pre,
                         post |-> [environ |-> environ', procEnv |-> procEnv', cwd |-> cwd'],
                         how |-> how, env_given |-> s.env_changed, base |-> s.base]

\* _cleanup of the innermost scope of a thread
Cleanup(how) ==
    /\ scopes # <<>>
    /\ CleanupAt(Len(scopes), how)

SandboxInit ==
    /\ environ \in StartEnvMaps
    /\ environLive = TRUE
    /\ procEnv = environ
    /\ cwd \in ExistingDirs
    /\ scopes = <<>>
    /\ lastScope = [how |-> "none"]

\* with save_env(env, path): entered
SaveEnvEnter ==
    /\ \E envGiven \in BOOLEAN, env \in Overrides, path \in Dirs \cup {None} :
        /\ ~envGiven => env = NoOverride
        /\ SetupOk(envGiven, env, path)
    /\ UNCHANGED notSandbox

\* with save_env(env, path): _setup raised
SaveEnvEnterFails ==
    /\ \E envGiven \in BOOLEAN, env \in Overrides, path \in Dirs \cup {None} :
        /\ ~envGiven => env = NoOverride
        /\ SetupRaises(envGiven, env, path)
    /\ UNCHANGED notSandbox

\* the with body returned
SaveEnvExitReturn == Cleanup("returned") /\ UNCHANGED notSandbox

\* the with body raised
SaveEnvExitRaise == Cleanup("raised") /\ UNCHANGED notSandbox

SandboxNext ==
    \/ SaveEnvEnter
    \/ SaveEnvEnterFails
    \/ SaveEnvExitReturn
    \/ SaveEnvExitRaise

\* the threads that can be inside a scope at once
MaxOverlap == 2

\* with save_env(env, path) entered by a thread that holds no scope, while
\* other threads may be inside theirs: no lock is taken; the overrides tried
\* set CC alone
ThreadEnter ==
    /\ Len(scopes) < MaxOverlap
    /\ \E envGiven \in BOOLEAN, env \in Overrides, path \in Dirs \cup {None} :
        /\ IF envGiven THEN env["PATH"] = Unset /\ env["CC"] # Unset ELSE env = NoOverride
        /\ Setup(envGiven, env, path)
    /\ UNCHANGED notSandbox

\* any of the threads leaves its scope: the scopes of different threads end
\* in any order
ThreadExit ==
    /\ \E i \in 1..Len(scopes) : CleanupAt(i, "returned")
    /\ UNCHANGED notSandbox

ThreadsNext ==
    \/ ThreadEnter
    \/ ThreadExit

\* the ambient state of a process in which no scope was ever entered
SandboxIdle ==
    /\ environ = [v \in EnvVars |-> "a"]
    /\ environLive = TRUE
    /\ procEnv = environ
    /\ cwd = "/"
    /\ scopes = <<>>
    /\ lastScope = [how |-> "none"]

(***************************************************************************)
(*     utils/mutex.py : Mutex.mapget, on build.py's _STEP_COUNT            *)
(***************************************************************************)
\* the threads that start steps, and the steps each starts
NumThreads == 2
StepsPerThread == 2
\* the counter's values before the run that are tried
MaxFirstCount == 1

Threads == 1..NumThreads
NoThread == 0

\* LockType.acquire with the mutual exclusion left out
LockTypeAcquire_NoExclusion(t) == mtxHolder' = t

\* LockType.acquire: threading.Lock.acquire blocks until the lock is free
LockTypeAcquire(t) == mtxHolder = NoThread /\ mtxHolder' = t

\* LockType.release
LockTypeRelease(t) == mtxHolder' = IF mtxHolder = t THEN NoThread ELSE mtxHolder

\* operator.add, the method _do_call passes to mapget
add(a, b) == a + b

\* _mutex(self._mtx).__enter__ : lock.acquire()
MapgetAcquire(t) ==
    /\ thr[t].pc = "idle" /\ thr[t].left > 0
    /\ LockTypeAcquire(t)
    /\ thr' = [thr EXCEPT ![t].pc = "locked"]
    /\ UNCHANGED <<stepCount, logged, firstCount, wentDown>>
    /\ UNCHANGED notCounter

\* method(self._value, 1): the value is read and the sum computed
MapgetCall(t) ==
    /\ thr[t].pc = "locked"
    /\ thr' = [thr EXCEPT ![t].pc = "computed", ![t].tmp = add(stepCount, 1)]
    /\ UNCHANGED <<stepCount, mtxHolder, logged, firstCount, wentDown>>
    /\ UNCHANGED notCounter

\* self._value = <the sum>
MapgetStore(t) ==
    /\ thr[t].pc = "computed"
    /\ stepCount' = thr[t].tmp
    /\ wentDown' = (wentDown \/ stepCount' < stepCount)
    /\ thr' = [thr EXCEPT ![t].pc = "stored"]
    /\ UNCHANGED <<mtxHolder, logged, firstCount>>
    /\ UNCHANGED notCounter

\* return self._value, then the finally clause of _mutex: lock.release()
MapgetReturn(t) ==
    /\ thr[t].pc = "stored"
    /\ LockTypeRelease(t)
    /\ thr' = [thr EXCEPT ![t].pc = "returned", ![t].ret = stepCount]
    /\ UNCHANGED <<stepCount, logged, firstCount, wentDown>>
    /\ UNCHANGED notCounter

\* pinfo(f"STEP n°{...} - ..."): the number mapget returned is logged
LogStepNumber(t) ==
    /\ thr[t].pc = "returned"
    /\ logged' = Append(logged, thr[t].ret)
    /\ thr' = [thr EXCEPT ![t].pc = "idle", ![t].left = @ - 1]
    /\ UNCHANGED <<stepCount, mtxHolder, firstCount, wentDown>>
    /\ UNCHANGED notCounter

CounterInit ==
    /\ stepCount \in 0..MaxFirstCount
    /\ firstCount = stepCount
    /\ mtxHolder = NoThread
    /\ thr = [t \in Threads |-> [pc |-> "idle", tmp |-> 0, ret |-> 0, left |-> StepsPerThread]]
    /\ logged = <<>>
    /\ wentDown = FALSE

\* ---- get, set, mapget and getmap of one Mutex, with a method that may raise ----
MutexOps == {"get", "set", "mapget", "getmap"}
\* the calls all threads make together
MaxMutexCalls == 3

\* the with statement of _mutex left without its finally clause: the lock is
\* released on a return alone
MutexExit_OnReturnOnly(t, raised) ==
    IF raised THEN UNCHANGED mtxHolder ELSE LockTypeRelease(t)

\* _mutex: finally: lock.release(), whether the body returned or raised
MutexExit(t, raised) == LockTypeRelease(t)

\* a thread calls one of the four methods: with _mutex(self._mtx) acquires
MutexAcquire(t) ==
    /\ thr[t].pc = "idle" /\ Len(logged) < MaxMutexCalls
    /\ LockTypeAcquire(t)
    /\ \E op \in MutexOps :
         thr' = [thr EXCEPT ![t].pc = "locked", ![t].op = op, ![t].tmp = stepCount,
                            ![t].raised = FALSE]
    /\ UNCHANGED <<stepCount, logged, firstCount, wentDown>>
    /\ UNCHANGED notCounter

\* the body of the with statement: get returns the value, set stores the new
\* one (the value tried is the first one), mapget and getmap call the method
\* and store what it returns; when the method raises the assignment is not
\* reached
MutexBody(t) ==
    /\ thr[t].pc = "locked"
    /\ CASE thr[t].op = "get" ->
              /\ thr' = [thr EXCEPT ![t].pc = "leaving", ![t].ret = stepCount]
              /\ UNCHANGED stepCount
         [] thr[t].op = "set" ->
              /\ stepCount' = firstCount
              /\ thr' = [thr EXCEPT ![t].pc = "leaving"]
         [] OTHER ->
              \E out \in {"ok", "error"} :
                 IF out = "ok"
                    THEN /\ stepCount' = add(stepCount, 1)
                         /\ thr' = [thr EXCEPT ![t].pc = "leaving",
                                       ![t].ret = IF thr[t].op = "mapget"
                                                     THEN stepCount' ELSE stepCount]
                    ELSE /\ thr' = [thr EXCEPT ![t].pc = "leaving", ![t].raised = TRUE]
                         /\ UNCHANGED stepCount
    /\ wentDown' = (wentDown \/ stepCount' < stepCount)
    /\ UNCHANGED <<mtxHolder, logged, firstCount>>
    /\ UNCHANGED notCounter

\* the with statement is left, by return or by the method's exception
MutexRelease(t) ==
    /\ thr[t].pc = "leaving"
    /\ MutexExit(t, thr[t].raised)
    /\ logged' = Append(logged, [thread |-> t, op |-> thr[t].op, raised |-> thr[t].raised,
                                 before |-> thr[t].tmp, after |-> stepCount])
    /\ thr' = [thr EXCEPT ![t].pc = "idle"]
    /\ UNCHANGED <<stepCount, firstCount, wentDown>>
    /\ UNCHANGED notCounter

MutexInit ==
    /\ stepCount \in 0..MaxFirstCount
    /\ firstCount = stepCount
    /\ mtxHolder = NoThread
    /\ thr = [t \in Threads |-> [pc |-> "idle", tmp |-> 0, ret |-> 0, left |-> 0,
                                 op |-> "get", raised |-> FALSE]]
    /\ logged = <<>>
    /\ wentDown = FALSE

MutexNext ==
    \/ \E t \in Threads : MutexAcquire(t)
    \/ \E t \in Threads : MutexBody(t)
    \/ \E t \in Threads : MutexRelease(t)

CounterIdle ==
    /\ stepCount = 0
    /\ firstCount = 0
    /\ mtxHolder = NoThread
    /\ thr = [t \in Threads |-> [pc |-> "idle", tmp |-> 0, ret |-> 0, left |-> 0]]
    /\ logged = <<>>
    /\ wentDown = FALSE

CounterNext ==
    \/ \E t \in Threads : MapgetAcquire(t)
    \/ \E t \in Threads : MapgetCall(t)
    \/ \E t \in Threads : MapgetStore(t)
    \/ \E t \in Threads : MapgetReturn(t)
    \/ \E t \in Threads : LogStepNumber(t)

(***************************************************************************)
(*  build.py : REG_VERSION, _get_latest_version_from_http/_ftp;            *)
(*  utils/semver.py : sort                                                 *)
(*  A name is a sequence of one-character strings.                         *)
(***************************************************************************)
\* the names a listing holds at most
MaxListing == 2

DigitChars == {"0", "1", "2", "3", "4", "5", "6", "7", "8", "9"}
DigitVal(c) ==
    CASE c = "0" -> 0 [] c = "1" -> 1 [] c = "2" -> 2 [] c = "3" -> 3 [] c = "4" -> 4
      [] c = "5" -> 5 [] c = "6" -> 6 [] c = "7" -> 7 [] c = "8" -> 8 [] c = "9" -> 9

\* the components whose listings are resolved here, spelled out
PkgChars(pkg) ==
    CASE pkg = "gcc" -> <<"g", "c", "c">>
      [] pkg = "gdb" -> <<"g", "d", "b">>
      [] pkg = "all" -> <<"a", "l", "l">>
      [] pkg = "binutils" -> <<"b", "i", "n", "u", "t", "i", "l", "s">>
      [] pkg = "nasm" -> <<"n", "a", "s", "m">>
      [] pkg = "qemu" -> <<"q", "e", "m", "u">>
      [] pkg = "limine" -> <<"l", "i", "m", "i", "n", "e">>
ResolvedPkgs == {"gcc", "gdb"}

StartsWith(s, pre) == Len(s) >= Len(pre) /\ SubSeq(s, 1, Len(pre)) = pre
Drop(s, n) == SubSeq(s, n + 1, Len(s))

\* the length of the longest run of digits s starts with: \d+ is greedy, and
\* giving a digit back never helps (what follows \d+ is never a digit)
RECURSIVE DigitRun(_)
DigitRun(s) == IF s # <<>> /\ s[1] \in DigitChars THEN 1 + DigitRun(Tail(s)) ELSE 0

\* (\.(zip|tar.*)|/)?$ : nothing, "/", ".zip", or ".tar" and anything after it
\* (the dot of tar.* is unescaped and .* takes the rest)
SuffixMatches(s) ==
    \/ s = <<>>
    \/ s = <<"/">>
    \/ s = <<".", "z", "i", "p">>
    \/ StartsWith(s, <<".", "t", "a", "r">>)

\* REG_VERSION[pkg].match(name): ^/?(pkg-)?(?P<version>\d+\.\d+(\.\d+)?)((\.(zip|tar.*)|/)?)$
\* [matched, version]: version is the text of the group "version"
RegVersionMatch(pkg, name) ==
    LET s1 == IF name # <<>> /\ name[1] = "/" THEN Tail(name) ELSE name
        pre == PkgChars(pkg) \o <<"-">>
        s2 == IF StartsWith(s1, pre) THEN Drop(s1, Len(pre)) ELSE s1
        n1 == DigitRun(s2)
        s3 == Drop(s2, n1)
        dot1 == n1 > 0 /\ s3 # <<>> /\ s3[1] = "."
        s4 == IF dot1 THEN Tail(s3) ELSE <<>>
        n2 == DigitRun(s4)
        s5 == Drop(s4, n2)
        third == s5 # <<>> /\ s5[1] = "." /\ DigitRun(Tail(s5)) > 0
        n3 == IF third THEN DigitRun(Tail(s5)) ELSE 0
        s6 == IF third THEN Drop(s5, 1 + n3) ELSE s5
        vlen == n1 + 1 + n2 + (IF third THEN 1 + n3 ELSE 0)
    IN  IF dot1 /\ n2 > 0 /\ SuffixMatches(s6)
           THEN [matched |-> TRUE, version |-> SubSeq(s2, 1, vlen)]
           ELSE [matched |-> FALSE, version |-> <<>>]

\* the list comprehension: the group "version" of every name that matches, in order
RECURSIVE MatchedVersions(_, _)
MatchedVersions(pkg, names) ==
    IF names = <<>> THEN <<>>
    ELSE LET m == RegVersionMatch(pkg, Head(names))
         IN  (IF m.matched THEN <<m.version>> ELSE <<>>) \o MatchedVersions(pkg, Tail(names))

\* int() of a run of digits
RECURSIVE DigitsToInt(_, _)
DigitsToInt(s, acc) ==
    IF s = <<>> THEN acc ELSE DigitsToInt(Tail(s), 10 * acc + DigitVal(s[1]))

\* str.split("."), on a version the pattern captured
RECURSIVE SplitDots(_, _)
SplitDots(s, cur) ==
    IF s = <<>> THEN <<cur>>
    ELSE IF s[1] = "." THEN <<cur>> \o SplitDots(Tail(s), <<>>)
    ELSE SplitDots(Tail(s), Append(cur, s[1]))

\* semantic_version.Version.coerce on "n.n" or "n.n.n": ".0" is appended until
\* there are three components, leading zeros are stripped; the sort key is
\* (major, minor, patch)
VersionCoerce(v) ==
    LET parts == SplitDots(v, <<>>)
        num(i) == IF i <= Len(parts) THEN DigitsToInt(parts[i], 0) ELSE 0
    IN  <<num(1), num(2), num(3)>>

\* Version.__lt__ on two keys
VersionLess(a, b) ==
    \/ a[1] < b[1]
    \/ a[1] = b[1] /\ a[2] < b[2]
    \/ a[1] = b[1] /\ a[2] = b[2] /\ a[3] < b[3]

\* sorted(..., key=coerce, reverse=reverse) is stable: x goes behind every
\* element that does not have to come after it
RECURSIVE InsertSorted(_, _, _)
InsertSorted(x, sorted, reverse) ==
    IF sorted = <<>> THEN <<x>>
    ELSE LET h == Head(sorted)
             xFirst == IF reverse THEN VersionLess(VersionCoerce(h), VersionCoerce(x))
                                  ELSE VersionLess(VersionCoerce(x), VersionCoerce(h))
         IN  IF xFirst THEN <<x>> \o sorted
             ELSE <<h>> \o InsertSorted(x, Tail(sorted), reverse)

RECURSIVE SortFrom(_, _, _)
SortFrom(todo, done, reverse) ==
    IF todo = <<>> THEN done
    ELSE SortFrom(Tail(todo), InsertSorted(Head(todo), done, reverse), reverse)

\* semver.sort(versions, reverse)
SemverSort(versions, reverse) == SortFrom(versions, <<>>, reverse)

\* the sort with the reverse flag left out
SortVersions_Ascending(versions) == SemverSort(versions, FALSE)

\* versions = semver.sort(versions, reverse=True)
SortVersions(versions) == SemverSort(versions, TRUE)

\* versions[0] answering the empty string on an empty list
FirstVersion_Default(versions) ==
    IF versions = <<>>
       THEN [state |-> "returned", version |-> <<>>, error |-> None]
       ELSE [state |-> "returned", version |-> versions[1], error |-> None]

\* return versions[0]: an IndexError on an empty list
FirstVersion(versions) ==
    IF versions = <<>>
       THEN [state |-> "raised", version |-> <<>>, error |-> "IndexError"]
       ELSE [state |-> "returned", version |-> versions[1], error |-> None]

\* the body both _get_latest_version_from_* share, given the listing's names
LatestVersion(pkg, names) == FirstVersion(SortVersions(MatchedVersions(pkg, names)))

\* the names tried in listings
ListingNames ==
    { <<"g","c","c","-","1","2",".","1",".","0","/">>,          \* gcc-12.1.0/
      <<"g","c","c","-","9",".","4",".","0","/">>,              \* gcc-9.4.0/
      <<"g","c","c","-","1","3",".","0",".","0","-","r","c","/">>,  \* gcc-13.0.0-rc/
      <<"2",".","1","5">>,                                      \* 2.15
      <<"2",".","1","5",".","1","/">>,                          \* 2.15.1/
      <<"/","g","c","c","-","9",".","4",".","t","a","r",".","x","z">>,  \* /gcc-9.4.tar.xz
      <<"g","c","c","-","9",".","0","4",".","0",".","z","i","p">>,      \* gcc-9.04.0.zip
      <<"R","E","A","D","M","E">>,                              \* README
      <<"g","c","c","-","1","4",".","1",".","0",".","0","/">>,  \* gcc-14.1.0.0/
      <<"g","d","b","-","1","5",".","1",".","t","a","r",".","x","z">> } \* gdb-15.1.tar.xz

Listings == UNION {[1..n -> ListingNames] : n \in 0..MaxListing}

ResolverInit ==
    /\ listing \in Listings
    /\ listingPkg \in ResolvedPkgs
    /\ resolved = [state |-> "pending", version |-> <<>>, error |-> None, via |-> None]

ResolverIdle ==
    /\ listing = <<>>
    /\ listingPkg = "gcc"
    /\ resolved = [state |-> "pending", version |-> <<>>, error |-> None, via |-> None]

WithVia(r, via) ==
    [state |-> r.state, version |-> r.version, error |-> r.error, via |-> via]

\* _get_latest_version_from_http: the names are the texts of the page's <a> tags
GetLatestVersionFromHttp ==
    /\ resolved.state = "pending"
    /\ resolved' = WithVia(LatestVersion(listingPkg, listing), "http")
    /\ UNCHANGED <<listing, listingPkg>>
    /\ UNCHANGED notResolver

\* _get_latest_version_from_ftp: the names are what ftp.nlst() answers
GetLatestVersionFromFtp ==
    /\ resolved.state = "pending"
    /\ resolved' = WithVia(LatestVersion(listingPkg, listing), "ftp")
    /\ UNCHANGED <<listing, listingPkg>>
    /\ UNCHANGED notResolver

ResolverNext ==
    \/ GetLatestVersionFromHttp
    \/ GetLatestVersionFromFtp

(***************************************************************************)
(*  utils/filetracker.py : _FsNotDir, _FsDepth, _compare_depth, _FileList, *)
(*  FileTracker.  A path is the sequence of names below the tracked        *)
(*  directory.                                                             *)
(***************************************************************************)
\* the filesystem changes a run makes at most, and the longest stored list
MaxFsOps == 2
MaxStored == 3

RootNames == {"a", "d"}
SubNames == {"c"}
Keys == {"k1", "k2"}
FileModes == {420, 493}            \* 0o644, 0o755
FileContents == {"x", "y", "xx"}   \* "y" differs from "x" in bytes, "xx" also in size

NoObj == [kind |-> "none"]

\* st_size and the xxh128 digest of a file's bytes (distinct bytes, distinct digests)
SizeOf(content) == IF content = "xx" THEN 2 ELSE 1
HashFile(content) == content

With(f, k, v) == [x \in DOMAIN f \cup {k} |-> IF x = k THEN v ELSE f[x]]
Without(f, k) == [x \in DOMAIN f \ {k} |-> f[x]]
Last(p) == p[Len(p)]

\* _FileList._build(dir): the _FsDepth of a directory, its subdirectories built
\* recursively, every other entry stat'ed and hashed
RECURSIVE Build(_, _)
Build(path, entries) ==
    LET dirNames == {n \in DOMAIN entries : entries[n].kind = "dir"}
        otherNames == DOMAIN entries \ dirNames
    IN  [kind |-> "dir",
         path |-> path,
         dirs |-> [p \in {Append(path, n) : n \in dirNames} |->
                      Build(p, entries[Last(p)].entries)],
         others |-> [p \in {Append(path, n) : n \in otherNames} |->
                      [kind |-> "file",
                       path |-> p,
                       st_mode |-> entries[Last(p)].st_mode,
                       st_size |-> SizeOf(entries[Last(p)].content),
                       checksum |-> HashFile(entries[Last(p)].content)]]]

\* the orders in which a Python set may be iterated
RECURSIVE Perms(_)
Perms(S) ==
    IF S = {} THEN {<<>>}
    ELSE UNION {{<<x>> \o p : p \in Perms(S \ {x})} : x \in S}

\* the concatenations that take one sequence of each set, in order
RECURSIVE ConcatChoices(_)
ConcatChoices(sets) ==
    IF sets = <<>> THEN {<<>>}
    ELSE {h \o t : h \in Head(sets), t \in ConcatChoices(Tail(sets))}

\* news - olds with the subtraction left out
NotInOld_All(olds, news) == news

\* not_in_new = olds - news; not_in_old = news - olds; in_both = olds & news
NotInNew(olds, news) == olds \ news
NotInOld(olds, news) == news \ olds
InBoth(olds, news) == olds \cap news

\* oobj != nobj comparing the size alone
FsNotDirDiffers_SizeOnly(oobj, nobj) == oobj.st_size # nobj.st_size

\* oobj != nobj taken for `oobj is not nobj`: two snapshots never share an object
FsNotDirDiffers_Identity(oobj, nobj) == TRUE

\* oobj != nobj on two _FsNotDir: the dataclass compares path, st_mode, st_size, checksum
FsNotDirDiffers(oobj, nobj) ==
    <<oobj.path, oobj.st_mode, oobj.st_size, oobj.checksum>>
        # <<nobj.path, nobj.st_mode, nobj.st_size, nobj.checksum>>

\* _compare_depth(old, new): the sequences of (old, new) pairs the generator can
\* yield, one for each order in which the three sets are iterated
RECURSIVE CompareDepth(_, _)
CompareDepth(old, new) ==
    LET olds == DOMAIN old.others \cup DOMAIN old.dirs
        news == DOMAIN new.others \cup DOMAIN new.dirs
        oldObj(o) == IF o \in DOMAIN old.others THEN old.others[o] ELSE old.dirs[o]
        newObj(n) == IF n \in DOMAIN new.others THEN new.others[n] ELSE new.dirs[n]
        removed(order) == [i \in 1..Len(order) |-> [old |-> oldObj(order[i]), new |-> NoObj]]
        added(order) == [i \in 1..Len(order) |-> [old |-> NoObj, new |-> newObj(order[i])]]
        both(b) ==
            IF b \in DOMAIN old.others
               THEN IF b \in DOMAIN new.others
                       THEN IF FsNotDirDiffers(old.others[b], new.others[b])
                               THEN {<< [old |-> old.others[b], new |-> new.others[b]] >>}
                               ELSE {<<>>}
                       ELSE {<< [old |-> old.others[b], new |-> new.dirs[b]] >>}
               ELSE IF b \in DOMAIN new.dirs
                       THEN CompareDepth(old.dirs[b], new.dirs[b])
                       ELSE {<< [old |-> old.dirs[b], new |-> new.others[b]] >>}
        boths(order) == ConcatChoices([i \in 1..Len(order) |-> both(order[i])])
    IN  {r \o a \o b :
            r \in {removed(o) : o \in Perms(NotInNew(olds, news))},
            a \in {added(o) : o \in Perms(NotInOld(olds, news))},
            b \in UNION {boths(o) : o \in Perms(InBoth(olds, news))}}

\* _FileList.modifications(): the snapshot start took against a fresh _build
Modifications(list) == CompareDepth(list, Build(<<>>, fs))

\* the loop of FileTracker.stop over the pairs, from the store st: a pair with
\* an old object raises RuntimeError; self[key] raises KeyError when the store
\* has no entry for key; otherwise the new path is appended and written back
RECURSIVE StopLoop(_, _, _, _)
StopLoop(evs, key, st, appended) ==
    IF evs = <<>> THEN [store |-> st, error |-> None, appended |-> appended]
    ELSE LET e == Head(evs)
         IN  IF e.old.kind # "none"
                THEN [store |-> st, error |-> "RuntimeError", appended |-> appended]
             ELSE IF key \notin DOMAIN st
                THEN [store |-> st, error |-> "KeyError", appended |-> appended]
             ELSE StopLoop(Tail(evs), key,
                           [st EXCEPT ![key] = Append(@, e.new.path)],
                           Append(appended, e.new.path))

\* FileTracker.start(key)
TrackerStart ==
    /\ \E k \in Keys :
        /\ trkKey' = k
        /\ trkList' = Build(<<>>, fs)
        /\ spans' = [spans EXCEPT !["t1"] = [kind |-> "span", key |-> k, list |-> trkList']]
    /\ UNCHANGED <<fs, fsOps, store, lastStop>>
    /\ UNCHANGED <<lastAccess, dbmBackend>>
    /\ UNCHANGED notTracker

\* FileTracker.stop() with no start before it: the first assert fails
TrackerStopNoStart ==
    /\ trkList = NoObj
    /\ lastStop' = [state |-> "raised", error |-> "AssertionError", key |-> trkKey,
                    old |-> NoObj, new |-> NoObj, before |-> store, after |-> store,
                    appended |-> <<>>, inFlight |-> FALSE]
    /\ UNCHANGED <<fs, fsOps, store, trkKey, trkList>>
    /\ UNCHANGED <<spans, lastAccess, dbmBackend>>
    /\ UNCHANGED notTracker

\* FileTracker.stop()
TrackerStop ==
    /\ trkList # NoObj
    /\ \E evs \in Modifications(trkList) :
        LET r == StopLoop(evs, trkKey, store, <<>>) IN
        /\ \A k \in DOMAIN r.store : Len(r.store[k]) <= MaxStored
        /\ store' = r.store
        /\ lastStop' = [state |-> IF r.error = None THEN "returned" ELSE "raised",
                        error |-> r.error, key |-> trkKey,
                        old |-> trkList, new |-> Build(<<>>, fs),
                        before |-> store, after |-> r.store, appended |-> r.appended,
                        inFlight |-> spans["t1"] # NoObj]
    /\ spans' = [spans EXCEPT !["t1"] = NoObj]
    /\ UNCHANGED <<fs, fsOps, trkKey, trkList>>
    /\ UNCHANGED <<lastAccess, dbmBackend>>
    /\ UNCHANGED notTracker

\* the lists of paths tried as values
StoredLists ==
    UNION {[1..n -> { <<"a">>, <<"d", "c">> }] : n \in 0..MaxStored - 1}

\* FileTracker.__getitem__(key): the unpickled value, or the KeyError of the
\* database
GetItem(st, key) ==
    IF key \in DOMAIN st
       THEN [error |-> None, value |-> st[key]]
       ELSE [error |-> "KeyError", value |-> <<>>]

\* the modules dbm.open chooses from, in the order of dbm._names
DbmBackends == {"sqlite3", "gnu", "ndbm", "dumb"}

\* FileTracker.__iter__: the unpickled keys of the database, where the
\* database object can be iterated: those of dbm.gnu and dbm.ndbm cannot
IterKeys(st) ==
    IF dbmBackend \in {"gnu", "ndbm"}
       THEN [error |-> "TypeError", keys |-> {}]
       ELSE [error |-> None, keys |-> DOMAIN st]

\* FileTracker.__setitem__(key, value)
TrackerSetItem ==
    /\ \E k \in Keys, v \in StoredLists :
        /\ store' = With(store, k, v)
        /\ lastAccess' = [op |-> "set", key |-> k, value |-> v, before |-> store]
    /\ UNCHANGED <<fs, fsOps, trkKey, trkList, lastStop, spans, dbmBackend>>
    /\ UNCHANGED notTracker

\* FileTracker.__delitem__(key): a KeyError for a key the database has not
TrackerDelItem ==
    /\ \E k \in Keys :
        /\ store' = IF k \in DOMAIN store THEN Without(store, k) ELSE store
        /\ lastAccess' = [op |-> IF k \in DOMAIN store THEN "del" ELSE "del_raised",
                          key |-> k, value |-> <<>>, before |-> store]
    /\ UNCHANGED <<fs, fsOps, trkKey, trkList, lastStop, spans, dbmBackend>>
    /\ UNCHANGED notTracker

\* a new FileTracker on the same persistent file: dbm.open(path, "c") opens
\* the database that is there; no span is in flight
TrackerReopen ==
    /\ trkKey' = None
    /\ trkList' = NoObj
    /\ lastAccess' = [op |-> "reopen", key |-> None, value |-> <<>>, before |-> store]
    /\ UNCHANGED <<fs, fsOps, store, lastStop, spans, dbmBackend>>
    /\ UNCHANGED notTracker

\* the threads that hold a span
SpanThreads == {"t1", "t2"}

\* FileTracker.start(key) called by a thread that holds no span; the body
\* runs under self._lock
SpanStart ==
    /\ \E t \in SpanThreads, k \in Keys :
        /\ spans[t] = NoObj
        /\ trkKey' = k
        /\ trkList' = Build(<<>>, fs)
        /\ spans' = [spans EXCEPT ![t] = [kind |-> "span", key |-> k, list |-> trkList']]
    /\ UNCHANGED <<fs, fsOps, store, lastStop, lastAccess, dbmBackend>>
    /\ UNCHANGED notTracker

\* FileTracker.stop() called by a thread to end its span; the body runs
\* under self._lock and reads self._key and self._list
SpanStop ==
    /\ \E t \in SpanThreads :
        /\ spans[t] # NoObj
        /\ \E evs \in Modifications(trkList) :
            LET r == StopLoop(evs, trkKey, store, <<>>) IN
            /\ \A k \in DOMAIN r.store : Len(r.store[k]) <= MaxStored
            /\ store' = r.store
            /\ lastStop' = [state |-> IF r.error = None THEN "returned" ELSE "raised",
                            error |-> r.error, key |-> trkKey,
                            old |-> trkList, new |-> Build(<<>>, fs),
                            before |-> store, after |-> r.store, appended |-> r.appended,
                            own |-> spans[t]]
        /\ spans' = [spans EXCEPT ![t] = NoObj]
    /\ UNCHANGED <<fs, fsOps, trkKey, trkList, lastAccess, dbmBackend>>
    /\ UNCHANGED notTracker

\* ---- what other code does to the tracked directory between start and stop
FsStep(newFs) ==
    /\ fsOps < MaxFsOps
    /\ fs' = newFs
    /\ fsOps' = fsOps + 1
    /\ UNCHANGED <<store, trkKey, trkList, lastStop>>
    /\ UNCHANGED <<spans, lastAccess, dbmBackend>>
    /\ UNCHANGED notTracker

NewFile == [kind |-> "file", st_mode |-> 420, content |-> "x"]
IsDir(n) == n \in DOMAIN fs /\ fs[n].kind = "dir"
IsFile(n) == n \in DOMAIN fs /\ fs[n].kind = "file"

\* a new regular file in the tracked directory
FsCreateFile == \E n \in RootNames \ DOMAIN fs : FsStep(With(fs, n, NewFile))

\* a new regular file in a subdirectory
FsCreateFileInDir ==
    \E d \in RootNames, n \in SubNames :
        /\ IsDir(d) /\ n \notin DOMAIN fs[d].entries
        /\ FsStep([fs EXCEPT ![d].entries = With(@, n, NewFile)])

\* a new empty subdirectory
FsMkdir ==
    \E n \in RootNames \ DOMAIN fs :
        FsStep(With(fs, n, [kind |-> "dir", entries |-> <<>>]))

\* the bytes of an existing file are rewritten
FsWriteFile ==
    \E n \in RootNames, c \in FileContents :
        /\ IsFile(n) /\ c # fs[n].content
        /\ FsStep([fs EXCEPT ![n].content = c])

FsWriteFileInDir ==
    \E d \in RootNames, n \in SubNames, c \in FileContents :
        /\ IsDir(d) /\ n \in DOMAIN fs[d].entries /\ c # fs[d].entries[n].content
        /\ FsStep([fs EXCEPT ![d].entries[n].content = c])

\* chmod of an existing file
FsChmod ==
    \E n \in RootNames, m \in FileModes :
        /\ IsFile(n) /\ m # fs[n].st_mode
        /\ FsStep([fs EXCEPT ![n].st_mode = m])

\* an entry of the tracked directory is removed (a file, or a directory and all in it)
FsRemove == \E n \in DOMAIN fs : FsStep(Without(fs, n))

FsRemoveInDir ==
    \E d \in RootNames :
        /\ IsDir(d)
        /\ \E n \in DOMAIN fs[d].entries :
              FsStep([fs EXCEPT ![d].entries = Without(@, n)])

\* the trees the tracked directory starts as
StartTrees ==
    { <<>>,
      [n \in {"a"} |-> [kind |-> "file", st_mode |-> 420, content |-> "x"]],
      [n \in {"d"} |-> [kind |-> "dir",
                        entries |-> [m \in {"c"} |-> [kind |-> "file", st_mode |-> 420, content |-> "y"]]]] }

\* the persisted stores a tracker is opened on
StartStores == { <<>>, [k \in {"k1"} |-> <<>>] }

TrackerInit ==
    /\ fs \in StartTrees
    /\ fsOps = 0
    /\ store \in StartStores
    /\ trkKey = None
    /\ trkList = NoObj
    /\ lastStop = [state |-> "none"]
    /\ spans = [t \in SpanThreads |-> NoObj]
    /\ lastAccess = [op |-> "none"]
    /\ dbmBackend = "dumb"

TrackerIdle ==
    /\ fs = <<>>
    /\ fsOps = 0
    /\ store = <<>>
    /\ trkKey = None
    /\ trkList = NoObj
    /\ lastStop = [state |-> "none"]
    /\ spans = [t \in SpanThreads |-> NoObj]
    /\ lastAccess = [op |-> "none"]
    /\ dbmBackend = "dumb"

TrackerNext ==
    \/ TrackerStart
    \/ TrackerStopNoStart
    \/ TrackerStop
    \/ FsCreateFile
    \/ FsCreateFileInDir
    \/ FsMkdir
    \/ FsWriteFile
    \/ FsWriteFileInDir
    \/ FsChmod
    \/ FsRemove
    \/ FsRemoveInDir

\* a tracker opened on a persistent file, used as a mapping
StoreInit ==
    /\ store \in StartStores
    /\ fs = <<>>
    /\ fsOps = 0
    /\ trkKey = None
    /\ trkList = NoObj
    /\ lastStop = [state |-> "none"]
    /\ spans = [t \in SpanThreads |-> NoObj]
    /\ lastAccess = [op |-> "none"]
    /\ dbmBackend \in DbmBackends

StoreNext ==
    \/ TrackerSetItem
    \/ TrackerDelItem
    \/ TrackerReopen

\* a tracker whose store has a list for either key, used by two threads
SpansInit ==
    /\ fs \in StartTrees
    /\ fsOps = 0
    /\ store = [k \in Keys |-> <<>>]
    /\ trkKey = None
    /\ trkList = NoObj
    /\ lastStop = [state |-> "none"]
    /\ spans = [t \in SpanThreads |-> NoObj]
    /\ lastAccess = [op |-> "none"]
    /\ dbmBackend = "dumb"

SpansNext ==
    \/ SpanStart
    \/ SpanStop
    \/ FsCreateFile
    \/ FsCreateFileInDir
    \/ FsMkdir

(***************************************************************************)
(*  toolchain/kernel/build.py : Step._do_call, download_latest,            *)
(*  _untar_or_unzip, KernelToolchainBuilder.download, main                 *)
(***************************************************************************)
\* the components a run may be asked for, and how many of them at most
Components == {"binutils", "gcc", "nasm"}
MaxPackages == 2

\* the exceptions the run tells apart
KeyboardInterrupt == "KeyboardInterrupt"
Exception == "Exception"
ExceptionGroup == "ExceptionGroup"
TypeError == "TypeError"
AttributeError == "AttributeError"
\* the abort marker: build.py raises and catches it, no file defines it
AlreadyPrinted == "AlreadyPrinted"

\* the fixed build-dependency order of the components
BuildOrder == <<"binutils", "nasm", "gcc">>

RECURSIVE OrderFrom(_, _)
OrderFrom(i, pkgs) ==
    IF i > Len(BuildOrder) THEN <<>>
    ELSE (IF BuildOrder[i] \in pkgs THEN <<BuildOrder[i]>> ELSE <<>>)
         \o OrderFrom(i + 1, pkgs)

\* ToolchainComponent.toolchain_build_order(self._packages)
ToolchainBuildOrder(pkgs) == OrderFrom(1, pkgs)

\* _get_download_func: nasm is the component with sig_url = None
HasSigUrl(pkg) == pkg # "nasm"

\* builder.src_directory
SrcDirectory == "/root/src"

\* BuildAction
BuildActions == {"download", "configure", "build", "install"}

\* Step._get_path with every action resolved to the source root
GetPath_AlwaysSrc(pkg, action) == SrcDirectory

\* Step._get_path: match action
GetPath(pkg, action) ==
    CASE action = "download" -> SrcDirectory
      [] action \in {"configure", "install", "build"} -> BuildDirectory(pkg)

\* make_env_for: the environment of a step always has the search path set
MakeEnvFor == [v \in EnvVars |-> IF v = "PATH" THEN "b" ELSE Unset]

\* KernelToolchainBuilder.__init__: the flag lists, the template environment
\* (one of its variables) and the search path, install/bin first
NewBuilderFlags ==
    [c_flags |-> <<"-O2", "-g", "-mno-red-zone", "-mcmodel=kernel", "-frecord-gcc-switches">>,
     cxx_flags |-> <<"-O2", "-g", "-mno-red-zone", "-mcmodel=kernel", "-frecord-gcc-switches">>,
     env |-> [CC |-> "/usr/bin/gcc"],
     pathenv |-> <<"install/bin", "/usr/bin">>]

\* make_env_for(builder, pkg, action) on the builder b: builder.c_flags and
\* builder.cxx_flags return the lists themselves, and -march and -mtune are
\* appended to them; the environment is a deep copy of the template with the
\* joined lists (kept as sequences); the call ends in todo() for gcc's
\* configure
MakeEnvForOn(b, pkg, action) ==
    LET c == b.c_flags \o <<"-march", "-mtune">>
        cxx == b.cxx_flags \o <<"-march", "-mtune">>
    IN  [builder |-> [b EXCEPT !.c_flags = c, !.cxx_flags = cxx],
         env |-> [CC |-> b.env.CC, PATH |-> b.pathenv, PREFIX |-> "install",
                  CFLAGS_FOR_TARGET |-> c, CXXFLAGS_FOR_TARGET |-> cxx,
                  TARGET |-> "triplet"],
         raises |-> pkg = "gcc" /\ action = "configure"]

\* Step.__call__: env = make_env_for(builder, self._pkg, self._action)
MakeEnvCall(pkg, action) ==
    LET r == MakeEnvForOn(flags, pkg, action) IN
    /\ flags' = r.builder
    /\ lastEnv' = [op |-> "make_env_for", pkg |-> pkg, action |-> action,
                   before |-> flags, env |-> r.env, raises |-> r.raises]

\* what one call made by an action does: it returns, it raises an error, or
\* the user's interrupt arrives while it runs
Outcomes == {"ok", "error", "interrupt"}
Raised(out) == IF out = "interrupt" THEN KeyboardInterrupt ELSE Exception

\* what the user may type at the prompt
Answers == {"y", "Y", "n", ""}
\* str.lower
Lower(str) == IF str = "Y" THEN "y" ELSE str

\* the test of the prompt turned around
IsYes_Inverted(prompt) == Lower(prompt) # "y"

\* not (prompt.lower() != "y")
IsYes(prompt) == Lower(prompt) = "y"

\* the step in flight, and that record changed
Cur == steps[Len(steps)]
StepWith(rec) == [steps EXCEPT ![Len(steps)] = rec]
Logged(rec, msgs) == [rec EXCEPT !.logs = @ \o msgs]

\* main: common_main, the builder is made, builder.prepare() returns and
\* builder.download() is called
MainStart ==
    /\ mainPc = "start"
    /\ mainPc' = "download"
    /\ phases' = <<"prepare", "download">>
    /\ UNCHANGED <<packages, stepPc, raising, excs, steps, topLog, exitStatus>>
    /\ UNCHANGED <<sandboxVars, stepCount, notPipeline>>

\* main: the builder's constructor or prepare() raises (an OSError of mkdir
\* or rmtree); caught by `except BaseException`
MainStartRaises ==
    /\ mainPc = "start"
    /\ mainPc' = "raised"
    /\ raising' = Exception
    /\ phases' = <<"prepare">>
    /\ UNCHANGED <<packages, stepPc, excs, steps, topLog, exitStatus>>
    /\ UNCHANGED <<sandboxVars, stepCount, notPipeline>>

\* download(): the next component's Step is called; _do_call logs the step's
\* number and description, then action.start
StepCall ==
    /\ mainPc = "download" /\ stepPc = "idle"
    /\ Len(steps) < Len(packages)
    /\ stepCount' = add(stepCount, 1)
    /\ steps' = Append(steps,
                  [pkg |-> packages[Len(steps) + 1],
                   action |-> "download",
                   target |-> None,
                   path |-> GetPath(packages[Len(steps) + 1], "download"),
                   n |-> stepCount',
                   logs |-> <<"step", "start">>,
                   interrupted |-> FALSE,
                   prompted |-> FALSE,
                   answer |-> None,
                   trace |-> <<>>,
                   pre |-> Ambient])
    /\ stepPc' = "enter"
    /\ MakeEnvCall(packages[Len(steps) + 1], "download")
    /\ UNCHANGED <<packages, phases, mainPc, raising, excs, topLog, exitStatus>>
    /\ UNCHANGED <<sandboxVars, mtxHolder, thr, logged, firstCount, wentDown>>
    /\ UNCHANGED <<resolverVars, trackerVars, prepVars, decoVars>>

\* download_latest: with save_env(env=env, path=path)
ActionEnter ==
    /\ stepPc = "enter"
    /\ SetupOk(TRUE, MakeEnvFor, Cur.path)
    /\ stepPc' = "resolve"
    /\ UNCHANGED <<packages, phases, mainPc, raising, excs, steps, topLog, exitStatus>>
    /\ UNCHANGED <<stepCount, notPipeline>>

\* an exception leaves download_latest: the finally clause of save_env runs
\* _cleanup, and the exception reaches the handlers of _do_call
LeaveWith(exc) ==
    /\ Cleanup("raised")
    /\ raising' = exc
    /\ stepPc' = "caught"

\* a call inside the with block, before the archive is held: it returns (and
\* the step's trace gets the event), raises, or is interrupted
ActionCall(out, next, event) ==
    /\ IF out = "ok"
          THEN /\ stepPc' = next
               /\ UNCHANGED <<sandboxVars, raising>>
          ELSE LeaveWith(Raised(out))
    /\ steps' = StepWith(
                  [Cur EXCEPT !.interrupted = @ \/ out = "interrupt",
                              !.trace = @ \o (IF out = "ok" THEN <<event>> ELSE <<>>),
                              !.logs = @ \o (IF out = "ok" /\ next = "extract"
                                                THEN <<"no_signature">> ELSE <<>>)])
    /\ UNCHANGED <<packages, phases, mainPc, excs, topLog, exitStatus>>
    /\ UNCHANGED <<stepCount, notPipeline>>

\* _get_latest_version_from_http / _get_latest_version_from_ftp
ResolveVersion ==
    /\ stepPc = "resolve"
    /\ \E out \in Outcomes : ActionCall(out, "fetch", "resolved")

\* dl_archive(archive_url...): download.from_http returns the bytes of the
\* archive; without a signature url the warning is logged next
FetchArchive ==
    /\ stepPc = "fetch"
    /\ \E out \in Outcomes :
         ActionCall(out, IF HasSigUrl(Cur.pkg) THEN "verify" ELSE "extract", "fetched")

\* the with closing(archive) block is left by an exception, whichever it is:
\* closing calls archive.close(), archive is a bytes object, and the
\* AttributeError of that call is what leaves download_latest
LeaveClosing(out, event) ==
    /\ LeaveWith(AttributeError)
    /\ steps' = StepWith(
                  [Cur EXCEPT !.interrupted = @ \/ out = "interrupt",
                              !.trace = @ \o (IF out = "ok" THEN <<event>> ELSE <<>>)])
    /\ UNCHANGED <<packages, phases, mainPc, excs, topLog, exitStatus>>
    /\ UNCHANGED <<stepCount, notPipeline>>

\* dl_sig(sig_url..., to=sig): the request is answered, fails or is
\* interrupted; once answered, from_http writes the bytes it received to a
\* file opened in text mode, a TypeError; verify_data is not reached
VerifySignature ==
    /\ stepPc = "verify"
    /\ \E out \in Outcomes : LeaveClosing(out, "sig_served")

\* _untar_or_unzip called with the bytes: to.mkdir() makes src/<pkg>, fails
\* or is interrupted, and archive.seek(0) raises AttributeError before
\* either reader is tried
ExtractBytes ==
    /\ stepPc = "extract"
    /\ \E out \in Outcomes : LeaveClosing(out, "mkdir")

\* ---- _untar_or_unzip called with an in-memory file (io.BytesIO) ----
\* what the archive is read as, and what its top level holds: nothing, one
\* regular file, one directory, one directory that holds an entry of its own
\* name, or more than one entry
ArchiveFormats == {"tar", "zip", "neither"}
ArchiveTops == {"empty", "file", "dir", "dir_clash", "many"}

\* what a reader meets on the archive: a reader given the other format (or
\* none) raises its format error at once; on its own format it extracts, or
\* fails while writing, or the interrupt arrives
ReaderOutcomes(reader) ==
    IF Cur.archive = reader THEN Outcomes ELSE {"error", "interrupt"}

\* one reader of _untar_or_unzip: `except BaseException` keeps whatever was
\* raised and goes on to next; the else clause goes to _rm_nested_dir
ReaderResult(out, reader, next) ==
    /\ stepPc' = IF out = "ok" THEN "rm_nested_dir" ELSE next
    /\ excs' = IF out = "ok" THEN excs ELSE Append(excs, Raised(out))
    /\ steps' = StepWith([Cur EXCEPT !.trace = Append(@, <<reader, out>>)])

\* to.mkdir(), exceptions = [], archive.seek(0)
ExtractMkdir ==
    /\ stepPc = "mkdir"
    /\ stepPc' = "untar"
    /\ excs' = <<>>
    /\ UNCHANGED <<packages, phases, mainPc, raising, steps, topLog, exitStatus>>
    /\ UNCHANGED <<sandboxVars, stepCount, notPipeline>>

\* _untar_or_unzip: tarfile.open(...).extractall(to)
Untar ==
    /\ stepPc = "untar"
    /\ \E out \in ReaderOutcomes("tar") : ReaderResult(out, "tar", "unzip")
    /\ UNCHANGED <<packages, phases, mainPc, raising, topLog, exitStatus>>
    /\ UNCHANGED <<sandboxVars, stepCount, notPipeline>>

\* _untar_or_unzip: zipfile.ZipFile(...).extractall(to)
Unzip ==
    /\ stepPc = "unzip"
    /\ \E out \in ReaderOutcomes("zip") : ReaderResult(out, "zip", "group")
    /\ UNCHANGED <<packages, phases, mainPc, raising, topLog, exitStatus>>
    /\ UNCHANGED <<sandboxVars, stepCount, notPipeline>>

\* _rm_nested_dir on what the reader wrote: next(to.iterdir()) on an empty
\* directory, inner.iterdir() on a regular file, mv onto an existing name;
\* with two entries or more nothing is moved
RmNestedDirRaises(top) ==
    CASE top = "empty" -> "StopIteration"
      [] top = "file" -> "NotADirectoryError"
      [] top = "dir_clash" -> "shutil.Error"
      [] OTHER -> None

\* return _rm_nested_dir()
RmNestedDir ==
    /\ stepPc = "rm_nested_dir"
    /\ raising' = RmNestedDirRaises(Cur.top)
    /\ stepPc' = IF raising' = None THEN "returned" ELSE "raised"
    /\ steps' = StepWith([Cur EXCEPT !.to = IF Cur.top = "dir" THEN "hoisted" ELSE Cur.top])
    /\ UNCHANGED <<packages, phases, mainPc, excs, topLog, exitStatus>>
    /\ UNCHANGED <<sandboxVars, stepCount, notPipeline>>

\* raise ExceptionGroup(msg, exceptions): the constructor refuses a list that
\* holds a BaseException which is no Exception, with a TypeError
RaiseGroup ==
    /\ stepPc = "group"
    /\ raising' = IF \E i \in DOMAIN excs : excs[i] = KeyboardInterrupt
                     THEN TypeError ELSE ExceptionGroup
    /\ stepPc' = "raised"
    /\ UNCHANGED <<packages, phases, mainPc, excs, steps, topLog, exitStatus>>
    /\ UNCHANGED <<sandboxVars, stepCount, notPipeline>>

\* a call of _untar_or_unzip(pkg, exts, archive, to) on a BytesIO, `to` not
\* there yet
ExtractInit ==
    /\ packages \in {<<p>> : p \in {"nasm", "gcc"}}
    /\ mainPc = "extract"
    /\ stepPc = "mkdir"
    /\ raising = None
    /\ excs = <<>>
    /\ steps \in {<<[pkg |-> packages[1], archive |-> a, top |-> t, to |-> None, trace |-> <<>>]>> :
                     a \in ArchiveFormats, t \in ArchiveTops}
    /\ topLog = <<>>
    /\ exitStatus = None
    /\ phases = <<>>

ExtractNext ==
    \/ ExtractMkdir
    \/ Untar
    \/ Unzip
    \/ RmNestedDir
    \/ RaiseGroup

\* _do_call: except KeyboardInterrupt: raise
DoCallReraise ==
    /\ stepPc = "caught" /\ raising = KeyboardInterrupt
    /\ stepPc' = "idle"
    /\ mainPc' = "raised"
    /\ UNCHANGED <<packages, phases, raising, excs, steps, topLog, exitStatus>>
    /\ UNCHANGED <<sandboxVars, stepCount, notPipeline>>

\* _do_call: except BaseException: the failure is logged with its traceback
\* and input("Continue ? [y/N]: ") is called.  (No action function raises
\* AlreadyPrinted, so the clause for it is never taken.)
DoCallFailure ==
    /\ stepPc = "caught" /\ raising \notin {KeyboardInterrupt, AlreadyPrinted}
    /\ stepPc' = "prompt"
    /\ raising' = None
    /\ steps' = StepWith([Logged(Cur, <<"failure">>) EXCEPT !.prompted = TRUE])
    /\ UNCHANGED <<packages, phases, mainPc, excs, topLog, exitStatus>>
    /\ UNCHANGED <<sandboxVars, stepCount, notPipeline>>

\* the answer is read: "y" in either case continues, and the success line of
\* the step is logged as _do_call returns; anything else raises AlreadyPrinted
PromptAnswer ==
    /\ stepPc = "prompt"
    /\ \E prompt \in Answers :
         IF IsYes(prompt)
            THEN /\ steps' = StepWith(
                               [Logged(Cur, <<"continuing", "success">>) EXCEPT !.answer = prompt])
                 /\ UNCHANGED <<raising, mainPc>>
            ELSE /\ steps' = StepWith(
                               [Logged(Cur, <<"aborting">>) EXCEPT !.answer = prompt])
                 /\ raising' = AlreadyPrinted
                 /\ mainPc' = "raised"
    /\ stepPc' = "idle"
    /\ UNCHANGED <<packages, phases, excs, topLog, exitStatus>>
    /\ UNCHANGED <<sandboxVars, stepCount, notPipeline>>

\* the interrupt arrives while input() waits: it leaves the handler
PromptInterrupted ==
    /\ stepPc = "prompt"
    /\ raising' = KeyboardInterrupt
    /\ mainPc' = "raised"
    /\ stepPc' = "idle"
    /\ UNCHANGED <<packages, phases, excs, steps, topLog, exitStatus>>
    /\ UNCHANGED <<sandboxVars, stepCount, notPipeline>>

\* _do_call when fn returned: pinfo(action.success(pkg)); return result
StepReturn ==
    /\ stepPc = "returned"
    /\ steps' = StepWith(Logged(Cur, <<"success">>))
    /\ stepPc' = "idle"
    /\ UNCHANGED <<packages, phases, mainPc, raising, excs, topLog, exitStatus>>
    /\ UNCHANGED <<sandboxVars, stepCount, notPipeline>>

\* both except clauses of main logging the traceback
ExceptLine_AlwaysTraceback(exc) == "failed_traceback"

\* main: except AlreadyPrinted logs one line; except BaseException logs the
\* line with traceback.format_exc()
ExceptLine(exc) == IF exc = AlreadyPrinted THEN "failed" ELSE "failed_traceback"

\* main: one of the except clauses logs its line and returns 1
MainExcept ==
    /\ mainPc = "raised"
    /\ topLog' = Append(topLog, ExceptLine(raising))
    /\ exitStatus' = 1
    /\ mainPc' = "done"
    /\ raising' = None
    /\ UNCHANGED <<packages, phases, stepPc, excs, steps>>
    /\ UNCHANGED <<sandboxVars, stepCount, notPipeline>>

\* main: download() returned, return 0
MainReturn ==
    /\ mainPc = "download" /\ stepPc = "idle"
    /\ Len(steps) = Len(packages)
    /\ exitStatus' = 0
    /\ mainPc' = "done"
    /\ UNCHANGED <<packages, phases, stepPc, raising, excs, steps, topLog>>
    /\ UNCHANGED <<sandboxVars, stepCount, notPipeline>>

PipelineInit ==
    /\ \E pkgs \in SUBSET Components :
         /\ Cardinality(pkgs) <= MaxPackages
         /\ packages = ToolchainBuildOrder(pkgs)
    /\ mainPc = "start"
    /\ stepPc = "idle"
    /\ raising = None
    /\ excs = <<>>
    /\ steps = <<>>
    /\ topLog = <<>>
    /\ exitStatus = None
    /\ phases = <<>>

\* no run
PipelineIdle ==
    /\ packages = <<>>
    /\ mainPc = "done"
    /\ stepPc = "idle"
    /\ raising = None
    /\ excs = <<>>
    /\ steps = <<>>
    /\ topLog = <<>>
    /\ exitStatus = None
    /\ phases = <<>>

PipelineNext ==
    \/ MainStart
    \/ MainStartRaises
    \/ StepCall
    \/ ActionEnter
    \/ ResolveVersion
    \/ FetchArchive
    \/ VerifySignature
    \/ ExtractBytes
    \/ DoCallReraise
    \/ DoCallFailure
    \/ PromptAnswer
    \/ PromptInterrupted
    \/ MainExcept
    \/ MainReturn

(***************************************************************************)
(*  toolchain/kernel/build.py : Step.__call__, make, _get_configure_func,  *)
(*  _get_build_func, _get_install_func,                                    *)
(*  KernelToolchainBuilder.build_and_install, called on a builder          *)
(***************************************************************************)
\* what the operations on a builder leave alone
notBuilder == <<mtxHolder, thr, logged, firstCount, wentDown, resolverVars, trackerVars,
                decoVars>>

\* the members of the enumeration ToolchainComponent
ToolchainComponent == {"all", "binutils", "nasm", "gcc", "gdb", "qemu", "limine"}

NameError == "NameError"
TodoError == "TodoError"

\* a root directory with nothing in it, not even itself
NoLayout ==
    [root |-> FALSE, src |-> FALSE, build |-> FALSE, install |-> FALSE,
     buildSub |-> {}, srcEntries |-> {}, installEntries |-> {}]

\* what calling a function object, or None, does
Returned(value) == [kind |-> "return", value |-> value]
Raises(exc) == [kind |-> "raise", value |-> exc]

\* _get_configure_func(pkg): the match has one case, binutils, whose body
\* reads the name ENV_VARS that nothing defines; every other component falls
\* off the end of the function, which returns None
GetConfigureFunc(pkg) ==
    IF pkg = "binutils" THEN Raises(NameError) ELSE Returned(None)

\* _get_build_func(pkg): pass
GetBuildFunc(pkg) == Returned(None)

\* the make targets of _get_install_func in the reverse order
InstallTargets_Reversed(pkg) ==
    IF pkg = "gcc"
       THEN <<"install-target-libstdc++-v3", "install-target-libgcc", "install-gcc">>
       ELSE <<"install">>

\* _get_install_func(pkg): the make targets of the Steps its function calls
InstallTargets(pkg) ==
    IF pkg = "gcc"
       THEN <<"install-gcc", "install-target-libgcc", "install-target-libstdc++-v3">>
       ELSE <<"install">>

\* the Steps of _get_install_func(pkg)'s function: Step(make, pkg, INSTALL)
\* called with target=..., one after the other
InstallSteps(pkg) ==
    [i \in 1..Len(InstallTargets(pkg)) |->
        [pkg |-> pkg, action |-> "install", target |-> InstallTargets(pkg)[i]]]

\* f(builder) for what a _get_*_func returned: None is not callable
CallFunc(f) == IF f.kind = "raise" THEN f.value ELSE TypeError

\* build_and_install(): the loop calls _get_configure_func(pkg)(self) for the
\* first component, which raises before any Step is made; with no component
\* the loop is empty and the method returns
BuildAndInstall ==
    /\ mainPc = "build_and_install"
    /\ IF packages = <<>>
          THEN /\ mainPc' = "done"
               /\ UNCHANGED raising
          ELSE /\ mainPc' = "raised"
               /\ raising' = CallFunc(GetConfigureFunc(packages[1]))
    /\ phases' = Append(phases, "build_and_install")
    /\ UNCHANGED <<packages, stepPc, excs, steps, topLog, exitStatus>>
    /\ UNCHANGED <<sandboxVars, stepCount, builderVars, notBuilder>>

\* _get_install_func(pkg)(builder) is called (as prepare does for a build
\* subdirectory left over)
InstallFuncCall ==
    /\ mainPc = "install_func"
    /\ todoSteps' = InstallSteps(packages[1])
    /\ mainPc' = "steps"
    /\ UNCHANGED <<packages, phases, stepPc, raising, excs, steps, topLog, exitStatus>>
    /\ UNCHANGED <<sandboxVars, stepCount, layout, builderPkgs, flagVars, notBuilder>>
    /\ UNCHANGED <<argPkgs, prepPc, leftover, prepLog>>

\* Step.__call__: _get_path, make_env_for (which ends in todo() for gcc's
\* configure), then _do_call logs the step's number, description and start
StepInvoke ==
    /\ mainPc = "steps" /\ stepPc = "idle" /\ todoSteps # <<>>
    /\ LET h == Head(todoSteps) IN
         IF h.pkg = "gcc" /\ h.action = "configure"
            THEN /\ mainPc' = "raised"
                 /\ raising' = TodoError
                 /\ UNCHANGED <<stepCount, steps, stepPc>>
            ELSE /\ stepCount' = add(stepCount, 1)
                 /\ steps' = Append(steps,
                               [pkg |-> h.pkg,
                                action |-> h.action,
                                target |-> h.target,
                                path |-> GetPath(h.pkg, h.action),
                                n |-> stepCount',
                                logs |-> <<"step", "start">>,
                                interrupted |-> FALSE,
                                prompted |-> FALSE,
                                answer |-> None,
                                trace |-> <<>>,
                                pre |-> Ambient])
                 /\ stepPc' = IF h.action = "download" THEN "enter" ELSE "fn_enter"
                 /\ UNCHANGED <<mainPc, raising>>
    /\ todoSteps' = Tail(todoSteps)
    /\ MakeEnvCall(Head(todoSteps).pkg, Head(todoSteps).action)
    /\ UNCHANGED <<packages, phases, excs, topLog, exitStatus>>
    /\ UNCHANGED <<sandboxVars, layout, builderPkgs, notBuilder>>
    /\ UNCHANGED <<argPkgs, prepPc, leftover, prepLog>>

\* make / configure: with save_env(env=env, path=path); the chdir raises when
\* build/<pkg> does not exist
FnEnter ==
    /\ stepPc = "fn_enter"
    /\ IF DirExists(Cur.path)
          THEN /\ SetupOk(TRUE, MakeEnvFor, Cur.path)
               /\ stepPc' = "run"
               /\ UNCHANGED raising
          ELSE /\ SetupRaises(TRUE, MakeEnvFor, Cur.path)
               /\ stepPc' = "caught"
               /\ raising' = Exception
    /\ UNCHANGED <<packages, phases, mainPc, excs, steps, topLog, exitStatus>>
    /\ UNCHANGED <<stepCount, builderVars, notBuilder>>

\* run_executable(..., check=True) inside the with block: the program exits
\* with 0, or it fails (CalledProcessError), or the interrupt arrives
RunExecutable ==
    /\ stepPc = "run"
    /\ \E out \in Outcomes :
         /\ IF out = "ok"
               THEN /\ Cleanup("returned")
                    /\ stepPc' = "returned"
                    /\ UNCHANGED raising
               ELSE LeaveWith(Raised(out))
         /\ steps' = StepWith([Cur EXCEPT !.interrupted = @ \/ out = "interrupt"])
    /\ UNCHANGED <<packages, phases, mainPc, excs, topLog, exitStatus>>
    /\ UNCHANGED <<stepCount, builderVars, notBuilder>>

\* the function that called the Steps returns: to prepare's loop when prepare
\* called it, and otherwise to the end of the run
StepsReturn ==
    /\ mainPc = "steps" /\ stepPc = "idle" /\ todoSteps = <<>>
    /\ mainPc' = IF prepPc = "install" THEN "prepare" ELSE "done"
    /\ UNCHANGED <<packages, phases, stepPc, raising, excs, steps, topLog, exitStatus>>
    /\ UNCHANGED <<sandboxVars, stepCount, builderVars, notBuilder>>

\* the layouts a builder is called in: the root with its three directories,
\* no build subdirectory yet or one for every component
BuildLayouts ==
    {[root |-> TRUE, src |-> TRUE, build |-> TRUE, install |-> TRUE,
      buildSub |-> sub, srcEntries |-> {}, installEntries |-> {}] : sub \in {{}, Components}}

\* a builder on which build_and_install is called, or a component's install
\* function, or one Step of any component and action
BuildInit ==
    /\ \/ /\ mainPc = "build_and_install"
          /\ \E pkgs \in SUBSET Components :
               /\ Cardinality(pkgs) <= MaxPackages
               /\ packages = ToolchainBuildOrder(pkgs)
          /\ todoSteps = <<>>
       \/ /\ mainPc = "install_func"
          /\ \E pkg \in Components : packages = <<pkg>>
          /\ todoSteps = <<>>
       \/ /\ mainPc = "steps"
          /\ \E pkg \in Components, action \in BuildActions :
               /\ packages = <<pkg>>
               /\ todoSteps = << [pkg |-> pkg, action |-> action, target |-> None] >>
    /\ builderPkgs = {packages[i] : i \in DOMAIN packages}
    /\ layout \in BuildLayouts
    /\ argPkgs = <<>>
    /\ prepPc = "idle"
    /\ leftover = {}
    /\ prepLog = <<>>
    /\ flags = NewBuilderFlags
    /\ lastEnv = [op |-> "none"]
    /\ stepPc = "idle"
    /\ raising = None
    /\ excs = <<>>
    /\ steps = <<>>
    /\ topLog = <<>>
    /\ exitStatus = None
    /\ phases = <<>>

\* no builder
BuilderIdle ==
    /\ layout = NoLayout
    /\ builderPkgs = {}
    /\ todoSteps = <<>>
    /\ argPkgs = <<>>
    /\ prepPc = "idle"
    /\ leftover = {}
    /\ prepLog = <<>>
    /\ flags = NewBuilderFlags
    /\ lastEnv = [op |-> "none"]

BuildNext ==
    \/ BuildAndInstall
    \/ InstallFuncCall
    \/ StepInvoke
    \/ FnEnter
    \/ RunExecutable
    \/ StepsReturn
    \/ ActionEnter
    \/ ResolveVersion
    \/ FetchArchive
    \/ VerifySignature
    \/ ExtractBytes
    \/ DoCallReraise
    \/ DoCallFailure
    \/ PromptAnswer
    \/ PromptInterrupted
    \/ StepReturn

(***************************************************************************)
(*  toolchain/kernel/build.py : _parse_package_list, the builder main      *)
(*  makes of its result, and KernelToolchainBuilder.prepare                *)
(***************************************************************************)
\* the names a --rebuild-package list holds at most
MaxArgs == 2

ValueError == "ValueError"

\* the names tried in a package list: the pseudo-component, two components
\* and a name that is no component
ArgNames == {"all", "gcc", "nasm", "bogus"}
PackageLists == UNION {[1..n -> ArgNames] : n \in 1..MaxArgs}

\* set(packages)
SeqToSet(s) == {s[i] : i \in DOMAIN s}

\* the filter that keeps limine as well
NotAllNorLimine_OnlyAll(component) == component # "all"

\* the lambda of _parse_package_list and of prepare
NotAllNorLimine(component) == component # "limine" /\ component # "all"

\* list(filter(lambda, iter(ToolchainComponent))): the members in the order
\* the enumeration defines them
DefaultPackageList ==
    SelectSeq(<<"all", "binutils", "nasm", "gcc", "gdb", "qemu", "limine">>, NotAllNorLimine)

\* the parser that returns the components as given
ParsePackageList_AsGiven(args) ==
    IF \E i \in DOMAIN args : args[i] \notin ToolchainComponent
       THEN Raises(ValueError)
       ELSE Returned(args)

\* _parse_package_list: ToolchainComponent(x) raises for a name that is no
\* member; a list with all in it becomes every member but limine and all
ParsePackageList(args) ==
    IF \E i \in DOMAIN args : args[i] \notin ToolchainComponent
       THEN Raises(ValueError)
       ELSE IF \E i \in DOMAIN args : args[i] = "all"
               THEN Returned(DefaultPackageList)
               ELSE Returned(args)

\* the purge that removes only the entries named exactly as a component
SrcPurge_ExactName(entries, pkgs) ==
    {e \in entries : ~ \E pkg \in pkgs : e = PkgChars(pkg)}

\* prepare's loop over src: what is left of the entries once every one whose
\* name starts with a requested component's name is removed
SrcPurge(entries, pkgs) ==
    {e \in entries : ~ \E pkg \in pkgs : StartsWith(e, PkgChars(pkg))}

\* the directories tried in build/, one of them named after no component
BuildNames == {"gcc", "nasm", "tmp"}
\* the entries tried in src/: gcc-9, gc, nasm.xz
SrcNames ==
    { <<"g", "c", "c", "-", "9">>, <<"g", "c">>, <<"n", "a", "s", "m", ".", "x", "z">> }

\* the root directories prepare is called on: none, one without build/, and
\* the ones with build/, with or without src/ and install/ and their entries
PrepareLayouts ==
    {NoLayout, [NoLayout EXCEPT !.root = TRUE, !.src = TRUE, !.install = TRUE]}
    \cup {l \in [root : {TRUE}, src : BOOLEAN, build : {TRUE}, install : BOOLEAN,
                 buildSub : SUBSET BuildNames, srcEntries : SUBSET SrcNames,
                 installEntries : {{}, {"bin"}}] :
               /\ l.src \/ l.srcEntries = {}
               /\ l.install \/ l.installEntries = {}}

\* main: KernelToolchainBuilder(_parse_package_list(args), ...), whose
\* constructor keeps set(packages)
BuilderNew ==
    /\ mainPc = "parse"
    /\ LET r == ParsePackageList(argPkgs) IN
         IF r.kind = "raise"
            THEN /\ mainPc' = "raised"
                 /\ raising' = r.value
                 /\ UNCHANGED <<packages, builderPkgs, prepPc>>
            ELSE /\ packages' = r.value
                 /\ builderPkgs' = SeqToSet(r.value)
                 /\ mainPc' = "prepare"
                 /\ prepPc' = "entry"
                 /\ UNCHANGED raising
    /\ UNCHANGED <<layout, todoSteps, argPkgs, leftover, prepLog>>
    /\ UNCHANGED <<stepPc, excs, steps, topLog, exitStatus, phases>>
    /\ UNCHANGED <<sandboxVars, stepCount, flagVars, notBuilder>>

\* prepare, the root directory does not exist: mkdir root, src, build and
\* install, and _packages becomes every member the filter keeps
PrepareRootMissing ==
    /\ mainPc = "prepare" /\ prepPc = "entry"
    /\ ~ layout.root
    /\ layout' = [NoLayout EXCEPT !.root = TRUE, !.src = TRUE, !.build = TRUE,
                                  !.install = TRUE]
    /\ builderPkgs' = {c \in ToolchainComponent : NotAllNorLimine(c)}
    /\ prepLog' = Append(prepLog, [op |-> "root_created", arg |-> {}])
    /\ prepPc' = "returned"
    /\ mainPc' = "done"
    /\ UNCHANGED <<packages, raising, todoSteps, argPkgs, leftover>>
    /\ UNCHANGED <<stepPc, excs, steps, topLog, exitStatus, phases>>
    /\ UNCHANGED <<sandboxVars, stepCount, flagVars, notBuilder>>

\* prepare, the root exists and build/ does not: rm(root), then
\* self.prepare(__builddir_not_found=True), a keyword the method does not
\* have (inside the class its parameter is _KernelToolchainBuilder__builddir_not_found)
PrepareBuildMissing ==
    /\ mainPc = "prepare" /\ prepPc = "entry"
    /\ layout.root /\ ~ layout.build
    /\ layout' = NoLayout
    /\ prepLog' = Append(prepLog, [op |-> "root_removed", arg |-> {}])
    /\ raising' = TypeError
    /\ prepPc' = "raised"
    /\ mainPc' = "raised"
    /\ UNCHANGED <<packages, builderPkgs, todoSteps, argPkgs, leftover>>
    /\ UNCHANGED <<stepPc, excs, steps, topLog, exitStatus, phases>>
    /\ UNCHANGED <<sandboxVars, stepCount, flagVars, notBuilder>>

\* prepare, root and build/ exist: rm(install, ignore_errors=True) and
\* install.mkdir()
PrepareEmptyInstall ==
    /\ mainPc = "prepare" /\ prepPc = "entry"
    /\ layout.root /\ layout.build
    /\ layout' = [layout EXCEPT !.install = TRUE, !.installEntries = {}]
    /\ prepLog' = Append(prepLog, [op |-> "install_emptied", arg |-> {}])
    /\ prepPc' = "rm_build"
    /\ UNCHANGED <<packages, mainPc, raising, builderPkgs, todoSteps, argPkgs, leftover>>
    /\ UNCHANGED <<stepPc, excs, steps, topLog, exitStatus, phases>>
    /\ UNCHANGED <<sandboxVars, stepCount, flagVars, notBuilder>>

\* prepare: rm(build/pkg) for every pkg of _packages that exists; iterdir
\* then lists the directories that are left
PrepareRemoveBuild ==
    /\ mainPc = "prepare" /\ prepPc = "rm_build"
    /\ layout' = [layout EXCEPT !.buildSub = @ \ builderPkgs]
    /\ leftover' = layout'.buildSub
    /\ prepLog' = Append(prepLog, [op |-> "build_removed", arg |-> leftover'])
    /\ prepPc' = "install"
    /\ UNCHANGED <<packages, mainPc, raising, builderPkgs, todoSteps, argPkgs>>
    /\ UNCHANGED <<stepPc, excs, steps, topLog, exitStatus, phases>>
    /\ UNCHANGED <<sandboxVars, stepCount, flagVars, notBuilder>>

\* prepare's loop over build/: _get_install_func(ToolchainComponent(name))(self)
\* for the next directory, in the order iterdir gives them;
\* ToolchainComponent(name) raises for a name that is no member
PrepareInstall ==
    /\ mainPc = "prepare" /\ prepPc = "install" /\ stepPc = "idle"
    /\ \E d \in leftover :
         /\ leftover' = leftover \ {d}
         /\ IF d \in ToolchainComponent
               THEN /\ todoSteps' = InstallSteps(d)
                    /\ prepLog' = Append(prepLog, [op |-> "install", arg |-> {d}])
                    /\ mainPc' = "steps"
                    /\ UNCHANGED <<raising, prepPc>>
               ELSE /\ raising' = ValueError
                    /\ mainPc' = "raised"
                    /\ prepPc' = "raised"
                    /\ UNCHANGED <<todoSteps, prepLog>>
    /\ UNCHANGED <<packages, layout, builderPkgs, argPkgs>>
    /\ UNCHANGED <<stepPc, excs, steps, topLog, exitStatus, phases>>
    /\ UNCHANGED <<sandboxVars, stepCount, flagVars, notBuilder>>

\* prepare, after the loop over build/: the entries of src whose name starts
\* with a requested component's name are removed, or src is made; return
PrepareSrc ==
    /\ mainPc = "prepare" /\ prepPc = "install" /\ stepPc = "idle"
    /\ leftover = {}
    /\ layout' = IF layout.src
                    THEN [layout EXCEPT !.srcEntries = SrcPurge(@, builderPkgs)]
                    ELSE [layout EXCEPT !.src = TRUE]
    /\ prepLog' = Append(prepLog, [op |-> "src_purged", arg |-> {}])
    /\ prepPc' = "returned"
    /\ mainPc' = "done"
    /\ UNCHANGED <<packages, raising, builderPkgs, todoSteps, argPkgs, leftover>>
    /\ UNCHANGED <<stepPc, excs, steps, topLog, exitStatus, phases>>
    /\ UNCHANGED <<sandboxVars, stepCount, flagVars, notBuilder>>

\* main has the arguments and a root directory in some state
PrepareInit ==
    /\ argPkgs \in PackageLists
    /\ layout \in PrepareLayouts
    /\ builderPkgs = {}
    /\ todoSteps = <<>>
    /\ prepPc = "idle"
    /\ leftover = {}
    /\ prepLog = <<>>
    /\ flags = NewBuilderFlags
    /\ lastEnv = [op |-> "none"]
    /\ packages = <<>>
    /\ mainPc = "parse"
    /\ stepPc = "idle"
    /\ raising = None
    /\ excs = <<>>
    /\ steps = <<>>
    /\ topLog = <<>>
    /\ exitStatus = None
    /\ phases = <<>>

PrepareNext ==
    \/ BuilderNew
    \/ PrepareRootMissing
    \/ PrepareBuildMissing
    \/ PrepareEmptyInstall
    \/ PrepareRemoveBuild
    \/ PrepareInstall
    \/ PrepareSrc
    \/ StepInvoke
    \/ FnEnter
    \/ RunExecutable
    \/ StepsReturn
    \/ DoCallReraise
    \/ DoCallFailure
    \/ PromptAnswer
    \/ PromptInterrupted
    \/ StepReturn

(***************************************************************************)
(*  toolchain/__init__.py : BuildAction, its part and desc properties and  *)
(*  the descriptions action / success / failure / processing               *)
(***************************************************************************)
notDeco == <<sandboxVars, counterVars, resolverVars, trackerVars, pipelineVars, builderVars>>

\* the step invocations that decorate and describe, the part indexes and the
\* free texts they use
NumInvocations == 2
MaxPart == 2
Invocations == 1..NumInvocations
NoPart == 0
Parts == 1..MaxPart
Descs == {"target"}
Describers == {"action", "success", "failure", "processing"}

\* @part.setter: self._part = part, self being the member of the enumeration
PartSetter(member, part) == [actPart EXCEPT ![member] = part]

\* @desc.setter: self._part_desc = desc
DescSetter(member, desc) == [actDesc EXCEPT ![member] = desc]

\* the part and desc properties: the attribute, None when getattr throws
PartOf(member) == actPart[member]
DescOf(member) == actDesc[member]

\* action / success / processing (and failure, through action): match
\* self.part, self.desc: no part, a part alone, or a part with its text
Describe(member) ==
    IF PartOf(member) = NoPart THEN [form |-> "plain", part |-> NoPart, desc |-> None]
    ELSE IF DescOf(member) = None
       THEN [form |-> "part", part |-> PartOf(member), desc |-> None]
       ELSE [form |-> "part_desc", part |-> PartOf(member), desc |-> DescOf(member)]

\* an invocation sets the part of its action
DecoSetPart ==
    /\ \E i \in Invocations, part \in Parts :
         /\ actPart' = PartSetter(invDeco[i].member, part)
         /\ invDeco' = [invDeco EXCEPT ![i].part = part]
    /\ UNCHANGED <<actDesc, described>>
    /\ UNCHANGED notDeco

\* an invocation sets the text of its action
DecoSetDesc ==
    /\ \E i \in Invocations, desc \in Descs :
         /\ actDesc' = DescSetter(invDeco[i].member, desc)
         /\ invDeco' = [invDeco EXCEPT ![i].desc = desc]
    /\ UNCHANGED <<actPart, described>>
    /\ UNCHANGED notDeco

\* @part.deleter and @desc.deleter, by an invocation that is done
DecoDelete ==
    /\ \E i \in Invocations :
         /\ actPart' = [actPart EXCEPT ![invDeco[i].member] = NoPart]
         /\ actDesc' = [actDesc EXCEPT ![invDeco[i].member] = None]
         /\ invDeco' = [invDeco EXCEPT ![i].part = NoPart, ![i].desc = None]
    /\ UNCHANGED described
    /\ UNCHANGED notDeco

\* an invocation produces a description of its step
DecoDescribe ==
    /\ \E i \in Invocations, how \in Describers :
         described' = [inv |-> i, how |-> how, text |-> Describe(invDeco[i].member),
                       own |-> invDeco[i]]
    /\ UNCHANGED <<actPart, actDesc, invDeco>>
    /\ UNCHANGED notDeco

\* the members start undecorated; each invocation is a step of some action
DecoInit ==
    /\ actPart = [m \in BuildActions |-> NoPart]
    /\ actDesc = [m \in BuildActions |-> None]
    /\ invDeco \in [Invocations -> [member : BuildActions, part : {NoPart}, desc : {None}]]
    /\ described = [inv |-> 0, how |-> None, text |-> None, own |-> None]

DecoIdle ==
    /\ actPart = [m \in BuildActions |-> NoPart]
    /\ actDesc = [m \in BuildActions |-> None]
    /\ invDeco = <<>>
    /\ described = [inv |-> 0, how |-> None, text |-> None, own |-> None]

DecoNext ==
    \/ DecoSetPart
    \/ DecoSetDesc
    \/ DecoDelete
    \/ DecoDescribe

vars == <<sandboxVars, counterVars, resolverVars, trackerVars, pipelineVars, builderVars, decoVars>>

InitSandbox == SandboxInit /\ CounterIdle /\ ResolverIdle /\ TrackerIdle /\ PipelineIdle /\ BuilderIdle /\ DecoIdle
SpecSandbox == InitSandbox /\ [][SandboxNext]_vars

InitCounter == CounterInit /\ SandboxIdle /\ ResolverIdle /\ TrackerIdle /\ PipelineIdle /\ BuilderIdle /\ DecoIdle
SpecCounter == InitCounter /\ [][CounterNext]_vars

InitResolver == ResolverInit /\ SandboxIdle /\ CounterIdle /\ TrackerIdle /\ PipelineIdle /\ BuilderIdle /\ DecoIdle
SpecResolver == InitResolver /\ [][ResolverNext]_vars

InitTracker == TrackerInit /\ SandboxIdle /\ CounterIdle /\ ResolverIdle /\ PipelineIdle /\ BuilderIdle /\ DecoIdle
SpecTracker == InitTracker /\ [][TrackerNext]_vars

InitPipeline ==
    /\ PipelineInit /\ SandboxInit /\ CounterIdle /\ ResolverIdle /\ TrackerIdle
    /\ BuilderIdle /\ DecoIdle
SpecPipeline == InitPipeline /\ [][PipelineNext]_vars

InitBuild ==
    BuildInit /\ SandboxInit /\ CounterIdle /\ ResolverIdle /\ TrackerIdle /\ DecoIdle
SpecBuild == InitBuild /\ [][BuildNext]_vars

InitDeco ==
    /\ DecoInit /\ SandboxIdle /\ CounterIdle /\ ResolverIdle /\ TrackerIdle
    /\ PipelineIdle /\ BuilderIdle
SpecDeco == InitDeco /\ [][DecoNext]_vars

InitExtract == ExtractInit /\ SandboxIdle /\ CounterIdle /\ ResolverIdle /\ TrackerIdle /\ BuilderIdle /\ DecoIdle
SpecExtract == InitExtract /\ [][ExtractNext]_vars

InitMutex == MutexInit /\ SandboxIdle /\ ResolverIdle /\ TrackerIdle /\ PipelineIdle /\ BuilderIdle /\ DecoIdle
SpecMutex == InitMutex /\ [][MutexNext]_vars

InitThreads == SandboxInit /\ CounterIdle /\ ResolverIdle /\ TrackerIdle /\ PipelineIdle /\ BuilderIdle /\ DecoIdle
SpecThreads == InitThreads /\ [][ThreadsNext]_vars

InitStore == StoreInit /\ SandboxIdle /\ CounterIdle /\ ResolverIdle /\ PipelineIdle /\ BuilderIdle /\ DecoIdle
SpecStore == InitStore /\ [][StoreNext]_vars

InitSpans == SpansInit /\ SandboxIdle /\ CounterIdle /\ ResolverIdle /\ PipelineIdle /\ BuilderIdle /\ DecoIdle
SpecSpans == InitSpans /\ [][SpansNext]_vars

InitPrepare ==
    PrepareInit /\ SandboxInit /\ CounterIdle /\ ResolverIdle /\ TrackerIdle /\ DecoIdle
SpecPrepare == InitPrepare /\ [][PrepareNext]_vars

\* C1 (as claimed): after a save_env scope exits, by return or by raise, the
\* ambient process environment and the working directory equal their values
\* immediately before the scope was entered.
C1_ScopeRestoresAmbient ==
    lastScope.how \in {"returned", "raised"} => lastScope.post = lastScope.pre

\* what the log of a step says of how it ended
StepOutcome(rec) ==
    IF \E i \in DOMAIN rec.logs : rec.logs[i] = "aborting" THEN "FailedAborted"
    ELSE IF \E i \in DOMAIN rec.logs : rec.logs[i] = "continuing" THEN "FailedRecovered"
    ELSE IF rec.logs[Len(rec.logs)] = "success" THEN "Succeeded"
    ELSE "Running"

\* the answers that are a "y", and the other ones
Affirmative == {"y", "Y"}
Declined(rec) == rec.prompted /\ rec.answer # None /\ rec.answer \notin Affirmative

\* C2: once the continue prompt of a failed step was answered negatively, the
\* step has ended as FailedAborted, it is the last step of the run that ever
\* started, and the abort marker is on its way to main or has made main
\* return 1 with the one-line top-level message.
C2_DeclineAbortsRun ==
    \A i \in DOMAIN steps :
        Declined(steps[i]) =>
            /\ StepOutcome(steps[i]) = "FailedAborted"
            /\ i = Len(steps)
            /\ stepPc = "idle"
            /\ \/ mainPc = "raised" /\ raising = AlreadyPrinted
               \/ mainPc = "done" /\ exitStatus = 1 /\ topLog = <<"failed">>

\* a run has ended on a declined prompt while a requested component had not
\* been started
C2_Witness ==
    /\ mainPc = "done"
    /\ steps # <<>> /\ Declined(steps[Len(steps)])
    /\ Len(steps) < Len(packages)

\* C3 (as claimed): when the continue prompt of a failed step was answered
\* affirmatively, the step is recorded as FailedRecovered, the steps of the
\* remaining components are still started, and a run that ends has a non-zero
\* status.
C3_RecoveredRunEndsNonZero ==
    \A i \in DOMAIN steps :
        (steps[i].prompted /\ steps[i].answer \in Affirmative) =>
            /\ StepOutcome(steps[i]) = "FailedRecovered"
            /\ (mainPc = "done" /\ topLog = <<>>) => Len(steps) = Len(packages)
            /\ mainPc = "done" => exitStatus # 0

\* C4 (as claimed): once a KeyboardInterrupt was raised while the action of a
\* step was in flight, the action runs no further, the continue prompt is not
\* shown for the step, no later step starts, and when the step has ended no
\* scope is left entered and the ambient state is the one before the step.
C4_InterruptAbortsStep ==
    \A i \in DOMAIN steps :
        steps[i].interrupted =>
            /\ i = Len(steps)
            /\ stepPc \in {"caught", "idle"}
            /\ ~steps[i].prompted
            /\ stepPc = "idle" => (scopes = <<>> /\ Ambient = steps[i].pre)

AllStepsLogged == \A t \in Threads : thr[t].pc = "idle" /\ thr[t].left = 0

\* C5: the step numbers logged by concurrent threads starting from counter
\* value c are pairwise distinct, once N steps are logged they are exactly
\* c+1..c+N with no gap, and the counter never decreases.
C5_StepNumbersAtomic ==
    /\ \A i, j \in 1..Len(logged) : i # j => logged[i] # logged[j]
    /\ \A i \in 1..Len(logged) : logged[i] \in (firstCount + 1)..stepCount
    /\ AllStepsLogged =>
          {logged[i] : i \in 1..Len(logged)}
              = (firstCount + 1)..(firstCount + NumThreads * StepsPerThread)
    /\ ~wentDown

\* C5 witness: two threads were inside mapget one after the other and every
\* step of the run has logged its number
C5_Witness ==
    /\ AllStepsLogged
    /\ Len(logged) = NumThreads * StepsPerThread
    /\ NumThreads >= 2

\* the claims' order on versions: dotted integer tuples, a missing trailing
\* component counting as zero
DottedInts(v) ==
    LET parts == SplitDots(v, <<>>)
    IN  [i \in 1..3 |-> IF i <= Len(parts) THEN DigitsToInt(parts[i], 0) ELSE 0]
DottedLeq(a, b) ==
    LET x == DottedInts(a)
        y == DottedInts(b)
    IN  \/ x[1] < y[1]
        \/ x[1] = y[1] /\ x[2] < y[2]
        \/ x[1] = y[1] /\ x[2] = y[2] /\ x[3] <= y[3]

\* the positions of the listing whose name matches the component's pattern
MatchingEntries ==
    {i \in 1..Len(listing) : RegVersionMatch(listingPkg, listing[i]).matched}

\* C6: for every listing, the version returned is the captured version of an
\* entry that matches the component's pattern, and no matching entry has a
\* numerically greater version (dotted integer tuples, a missing trailing
\* component counting as zero); an entry that does not match is never returned.
C6_LatestIsGreatestMatching ==
    resolved.state = "returned" =>
        /\ \E i \in MatchingEntries :
              RegVersionMatch(listingPkg, listing[i]).version = resolved.version
        /\ \A j \in MatchingEntries :
              DottedLeq(RegVersionMatch(listingPkg, listing[j]).version, resolved.version)

\* C6 witness: the listing of the specification's example in either order,
\* gcc-9.4.0/ against gcc-12.1.0/, resolved to 12.1.0
C6_Witness ==
    /\ resolved.state = "returned"
    /\ listingPkg = "gcc"
    /\ Len(listing) = 2
    /\ \E i, j \in 1..2 :
          /\ listing[i] = <<"g","c","c","-","9",".","4",".","0","/">>
          /\ listing[j] = <<"g","c","c","-","1","2",".","1",".","0","/">>
    /\ resolved.version = <<"1","2",".","1",".","0">>

\* C7: when no entry of the listing matches the component's pattern, the
\* resolution (over HTTP or FTP) raises and returns no version.
C7_NoMatchRaises ==
    (resolved.state # "pending" /\ MatchingEntries = {}) =>
        /\ resolved.state = "raised"
        /\ resolved.version = <<>>

\* C7 witness: a listing of names that all fail the pattern was resolved and
\* the resolution raised
C7_Witness ==
    /\ resolved.state = "raised"
    /\ resolved.via \in {"http", "ftp"}
    /\ Len(listing) > 0
    /\ MatchingEntries = {}

\* every path of a snapshot, at every depth
RECURSIVE AllPaths(_)
AllPaths(depth) ==
    DOMAIN depth.others \cup DOMAIN depth.dirs
        \cup UNION {AllPaths(depth.dirs[p]) : p \in DOMAIN depth.dirs}

\* every regular file of a snapshot, at every depth
RECURSIVE AllFiles(_)
AllFiles(depth) ==
    {depth.others[p] : p \in DOMAIN depth.others}
        \cup UNION {AllFiles(depth.dirs[p]) : p \in DOMAIN depth.dirs}

FilePaths(depth) == {f.path : f \in AllFiles(depth)}

\* a stop call that compared the snapshot of a start with the tree
StopCompared == lastStop.state \in {"returned", "raised"} /\ lastStop.old # NoObj

\* between start and stop files were created and nothing else happened
OnlyFilesCreated ==
    /\ AllPaths(lastStop.old) \subseteq AllPaths(lastStop.new)
    /\ AllFiles(lastStop.old) \subseteq AllFiles(lastStop.new)
    /\ FilePaths(lastStop.new) \ FilePaths(lastStop.old) # {}

\* C8 (as claimed): for any key, also one the store has no entry for, after
\* start(k), the creation of one or more files and stop, stop has not raised
\* and the stored list of k is its previous list (empty if none) followed by
\* exactly the newly created paths.
C8_CreatedFilesAppended ==
    (StopCompared /\ OnlyFilesCreated) =>
        LET k == lastStop.key
            prev == IF k \in DOMAIN lastStop.before THEN lastStop.before[k] ELSE <<>>
            created == FilePaths(lastStop.new) \ FilePaths(lastStop.old)
        IN  /\ lastStop.state = "returned"
            /\ k \in DOMAIN lastStop.after
            /\ \E order \in Perms(created) : lastStop.after[k] = prev \o order

\* a file of the start's snapshot is still a file but its mode, size or digest differs
ExistingFileChanged ==
    \E o \in AllFiles(lastStop.old), n \in AllFiles(lastStop.new) :
        /\ o.path = n.path
        /\ <<o.st_mode, o.st_size, o.checksum>> # <<n.st_mode, n.st_size, n.checksum>>

\* C9: if between start and stop a file that existed at start still exists
\* but its content, size or mode changed, and nothing new was created, stop
\* raises (the RuntimeError "changed in some unpredictable way").
C9_ChangedFileRaises ==
    (StopCompared /\ ExistingFileChanged
        /\ AllPaths(lastStop.new) \subseteq AllPaths(lastStop.old))
    => (lastStop.state = "raised" /\ lastStop.error = "RuntimeError")

\* C9 witness: stop raised for a file of which only the bytes changed (same
\* size, same mode) and nothing else in the tree did
C9_Witness ==
    /\ StopCompared
    /\ lastStop.error = "RuntimeError"
    /\ AllPaths(lastStop.new) = AllPaths(lastStop.old)
    /\ \E o \in AllFiles(lastStop.old), n \in AllFiles(lastStop.new) :
          /\ o.path = n.path /\ o.st_mode = n.st_mode /\ o.st_size = n.st_size
          /\ o.checksum # n.checksum

\* C10: every path a stop call appended to a key's list was absent from the
\* snapshot taken by the start call that opened the span.
C10_AppendedWasAbsent ==
    StopCompared =>
        \A i \in 1..Len(lastStop.appended) :
            lastStop.appended[i] \notin AllPaths(lastStop.old)

\* C10 witness: a stop call appended the path of a file created inside a
\* directory the start's snapshot already held, next to a file it held too
C10_Witness ==
    /\ StopCompared
    /\ \E i \in 1..Len(lastStop.appended) :
          /\ Len(lastStop.appended[i]) = 2
          /\ SubSeq(lastStop.appended[i], 1, 1) \in AllPaths(lastStop.old)
    /\ AllFiles(lastStop.old) # {}

\* C11: the diff of a snapshot against itself, and against a second snapshot
\* of a tree that is the same as when the first was taken, yields no event:
\* for the tree as it is, for the snapshot start took, and for a stop whose two
\* snapshots are equal (which then appends nothing and does not raise).
C11_SelfDiffNoEvent ==
    /\ CompareDepth(Build(<<>>, fs), Build(<<>>, fs)) = {<<>>}
    /\ trkList # NoObj => CompareDepth(trkList, trkList) = {<<>>}
    /\ (trkList # NoObj /\ trkList = Build(<<>>, fs)) => Modifications(trkList) = {<<>>}
    /\ (lastStop.state # "none" /\ lastStop.old # NoObj /\ lastStop.old = lastStop.new) =>
          /\ lastStop.state = "returned"
          /\ lastStop.appended = <<>>
          /\ lastStop.after = lastStop.before

\* a stop has compared two equal snapshots of a tree that holds a file in a
\* subdirectory
C11_Witness ==
    /\ lastStop.state = "returned"
    /\ lastStop.old = lastStop.new
    /\ \E f \in AllFiles(lastStop.old) : Len(f.path) = 2

\* the path an event is about
EventPath(e) == IF e.new.kind # "none" THEN e.new.path ELSE e.old.path

\* the file of a snapshot at a path that is a file's
FileAt(depth, p) == CHOOSE f \in AllFiles(depth) : f.path = p

\* the paths added, removed or modified between two snapshots: in one alone,
\* or in both as a file and a directory, or as two files that differ
ChangedPaths(old, new) ==
    LET both == AllPaths(old) \cap AllPaths(new)
    IN  (AllPaths(new) \ AllPaths(old))
        \cup (AllPaths(old) \ AllPaths(new))
        \cup {p \in both : (p \in FilePaths(old)) # (p \in FilePaths(new))}
        \cup {p \in both : /\ p \in FilePaths(old) /\ p \in FilePaths(new)
                            /\ FileAt(old, p) # FileAt(new, p)}

\* C12 (as claimed): the diff of the snapshot start took against the tree
\* reports exactly one event for every path added, removed or modified
\* between them, at every depth, and none for any other path.
C12_OneEventPerChangedPath ==
    trkList # NoObj =>
        \A evs \in Modifications(trkList) :
            /\ {EventPath(evs[i]) : i \in DOMAIN evs} = ChangedPaths(trkList, Build(<<>>, fs))
            /\ Len(evs) = Cardinality(ChangedPaths(trkList, Build(<<>>, fs)))

\* C13 (as claimed): a run calls prepare, then download, then
\* build_and_install, in that order: what it has called so far is always a
\* prefix of that sequence with build_and_install only after the download of
\* every requested component has ended, and a run that returns 0 has called
\* all three.
C13_PrepareDownloadBuild ==
    LET order == <<"prepare", "download", "build_and_install">>
    IN  /\ Len(phases) <= 3 /\ phases = SubSeq(order, 1, Len(phases))
        /\ Len(phases) = 3 => (Len(steps) >= Len(packages))
        /\ (mainPc = "done" /\ exitStatus = 0) => phases = order

\* the (component, action) of the steps started so far, in order
StepSeq == [i \in DOMAIN steps |-> <<steps[i].pkg, steps[i].action>>]

\* configure, build, then the install steps, of each component in turn
RECURSIVE ExpectedBuildSteps(_)
ExpectedBuildSteps(pkgs) ==
    IF pkgs = <<>> THEN <<>>
    ELSE << <<Head(pkgs), "configure">>, <<Head(pkgs), "build">> >>
         \o [i \in DOMAIN InstallTargets(Head(pkgs)) |-> <<Head(pkgs), "install">>]
         \o ExpectedBuildSteps(Tail(pkgs))

IsPrefix(a, b) == Len(a) <= Len(b) /\ a = SubSeq(b, 1, Len(a))

\* C14 (as claimed): build_and_install runs, for the requested components in
\* dependency order, configure, then build, then install as steps, one
\* component after the other: the steps started are always a prefix of that
\* sequence, and all of it once build_and_install has ended other than by an
\* abort or an interrupt.
C14_BuildAndInstallInOrder ==
    (phases # <<>> /\ phases[Len(phases)] = "build_and_install") =>
        /\ IsPrefix(StepSeq, ExpectedBuildSteps(packages))
        /\ (mainPc \in {"done", "raised"} /\ raising \notin {AlreadyPrinted, KeyboardInterrupt})
              => StepSeq = ExpectedBuildSteps(packages)

\* the make targets of the steps started so far, in order
TargetSeq == [i \in DOMAIN steps |-> steps[i].target]

\* the steps were started by a component's install function
ByInstallFunc == steps # <<>> /\ steps[1].target # None

\* C15: the install function of gcc runs the make targets install-gcc,
\* install-target-libgcc, install-target-libstdc++-v3, in this order and no
\* other, that of any other component the one target install: the targets
\* started are a prefix of that list, every step is an install step of the
\* component, and the function returns having started exactly the list.
C15_InstallTargets ==
    LET claimed == IF packages[1] = "gcc"
                      THEN <<"install-gcc", "install-target-libgcc",
                             "install-target-libstdc++-v3">>
                      ELSE <<"install">>
    IN  ByInstallFunc =>
          /\ IsPrefix(TargetSeq, claimed)
          /\ \A i \in DOMAIN steps :
                steps[i].pkg = packages[1] /\ steps[i].action = "install"
          /\ mainPc = "done" => TargetSeq = claimed

\* gcc's install function has returned after its three make targets ran
\* without a failure
C15_Witness ==
    /\ ByInstallFunc /\ mainPc = "done" /\ packages = <<"gcc">>
    /\ Len(steps) = 3
    /\ \A i \in DOMAIN steps : ~steps[i].prompted /\ StepOutcome(steps[i]) = "Succeeded"

\* the directory the claim gives a step: the source root for download,
\* build/<component> for the three other actions
ClaimedPath(pkg, action) ==
    IF action = "download" THEN "/root/src" ELSE BuildDirectory(pkg)

\* C16: the working directory resolved for a step is the source root for
\* download and build/<component> for configure, build and install, for
\* every component and action, whatever the working directory and the steps
\* before it; it is the directory the step's action runs in.
C16_StepPathResolved ==
    /\ \A pkg \in ToolchainComponent \ {"all"}, action \in BuildActions :
          GetPath(pkg, action) = ClaimedPath(pkg, action)
    /\ \A i \in DOMAIN steps : steps[i].path = ClaimedPath(steps[i].pkg, steps[i].action)
    /\ stepPc \in {"resolve", "fetch", "verify", "untar", "unzip", "group", "run"}
          => cwd = ClaimedPath(Cur.pkg, Cur.action)

\* a configure step runs its program in build/<component>, entered from a
\* different directory
C16_Witness ==
    /\ stepPc = "run" /\ Cur.action = "configure"
    /\ cwd = BuildDirectory(Cur.pkg)
    /\ Cur.pre.cwd # cwd

\* C17 (as claimed): the description an invocation produces for its step
\* shows the decoration this invocation set, and nothing of a decoration set
\* by another invocation on the same member of BuildAction.
C17_DecorationPerInvocation ==
    described.inv # 0 =>
        LET own == described.own
        IN  /\ described.text.part = own.part
            /\ described.text.desc = (IF own.part = NoPart THEN None ELSE own.desc)

\* C18: when the root directory does not exist, prepare creates the root with
\* its src, build and install subdirectories and sets the requested package
\* set to every component except all and limine, whatever was requested.
C18_RootMissingCreatesAndDefaults ==
    [][(prepPc = "entry" /\ ~ layout.root /\ prepPc' # prepPc) =>
          /\ prepPc' = "returned"
          /\ layout'.root /\ layout'.src /\ layout'.build /\ layout'.install
          /\ builderPkgs' = ToolchainComponent \ {"all", "limine"}]_vars

\* prepare has returned from a missing root, called with gcc alone requested
C18_Witness ==
    /\ prepPc = "returned"
    /\ prepLog[1].op = "root_created"
    /\ argPkgs = <<"gcc">>
    /\ layout.root /\ layout.src /\ layout.build /\ layout.install
    /\ builderPkgs # {"gcc"}

\* C19: when the root layout exists, prepare first empties and recreates the
\* install directory, then removes build/<component> for every requested
\* component, then runs the install action once for each build subdirectory
\* still present, then removes every entry of src whose name starts with a
\* requested component's name; on return no build subdirectory of a requested
\* component and no such entry of src exists.
C19_PrepareCleans ==
    /\ prepPc = "rm_build" =>
          /\ prepLog = << [op |-> "install_emptied", arg |-> {}] >>
          /\ layout.install /\ layout.installEntries = {}
    /\ (prepPc = "returned" /\ prepLog[1].op = "install_emptied") =>
          LET installOps == SubSeq(prepLog, 3, Len(prepLog) - 1)
          IN  /\ Len(prepLog) >= 3
              /\ prepLog[2].op = "build_removed"
              /\ prepLog[Len(prepLog)].op = "src_purged"
              /\ \A i \in DOMAIN installOps : installOps[i].op = "install"
              /\ \A d \in prepLog[2].arg :
                    Cardinality({i \in DOMAIN installOps : installOps[i].arg = {d}}) = 1
              /\ Len(installOps) = Cardinality(prepLog[2].arg)
              /\ prepLog[2].arg \cap builderPkgs = {}
              /\ layout.buildSub \cap builderPkgs = {}
              /\ layout.src
              /\ \A entry \in layout.srcEntries :
                    ~ \E pkg \in builderPkgs : StartsWith(entry, PkgChars(pkg))

\* prepare has returned with gcc requested: the install function ran for the
\* nasm directory left in build/, gcc's is gone, and src keeps gc alone
C19_Witness ==
    /\ prepPc = "returned"
    /\ prepLog[1].op = "install_emptied"
    /\ builderPkgs = {"gcc"}
    /\ prepLog[2].arg = {"nasm"}
    /\ prepLog[3] = [op |-> "install", arg |-> {"nasm"}]
    /\ Len(steps) = 1 /\ steps[1].pkg = "nasm" /\ steps[1].target = "install"
    /\ layout.srcEntries = { <<"g", "c">> }

\* C20: the pseudo-component all never appears in the package set a builder
\* works on: neither after parsing a package list that contains all, nor
\* after prepare has defaulted the set.
C20_AllNeverInPackageSet ==
    /\ (mainPc # "parse" /\ "all" \in SeqToSet(argPkgs)) =>
          /\ "all" \notin SeqToSet(packages)
          /\ "all" \notin builderPkgs
    /\ (prepPc = "returned" /\ prepLog[1].op = "root_created") =>
          "all" \notin builderPkgs

\* a builder was made from the list all,gcc: its set is the five components
C20_Witness ==
    /\ mainPc = "prepare"
    /\ argPkgs = <<"all", "gcc">>
    /\ builderPkgs = {"binutils", "nasm", "gcc", "gdb", "qemu"}

\* whether a step's action got as far as the event
Did(rec, event) == \E k \in DOMAIN rec.trace : rec.trace[k] = event

\* C21 (as claimed): in an archive fetch with a signature URL, extraction
\* starts only after the signature was verified, and a fetch whose signature
\* was downloaded and that fails without the signature verified fails with
\* SignatureVerificationError; without a signature URL the warning is logged
\* once the archive is fetched.
C21_SignatureBeforeExtraction ==
    \A i \in DOMAIN steps :
        IF HasSigUrl(steps[i].pkg)
           THEN /\ Did(steps[i], "mkdir") => Did(steps[i], "verified")
                /\ (/\ i = Len(steps) /\ stepPc = "caught"
                    /\ Did(steps[i], "sig_served") /\ ~Did(steps[i], "verified"))
                      => raising = "SignatureVerificationError"
           ELSE Did(steps[i], "fetched") =>
                   \E k \in DOMAIN steps[i].logs : steps[i].logs[k] = "no_signature"

\* C22 (as claimed): the listing 2.14/, 2.15/, 2.15.1/ resolves to 2.15.1 for
\* nasm, and a download step of nasm whose version was resolved and whose
\* archive was fetched logs the no-signature warning, ends without a failure
\* and with src/nasm made and holding the hoisted contents.
C22_NasmDownloadCompletes ==
    /\ LatestVersion("nasm", << <<"2", ".", "1", "4", "/">>, <<"2", ".", "1", "5", "/">>,
                               <<"2", ".", "1", "5", ".", "1", "/">> >>).version
          = <<"2", ".", "1", "5", ".", "1">>
    /\ \A i \in DOMAIN steps :
          (/\ steps[i].pkg = "nasm" /\ steps[i].action = "download"
           /\ Did(steps[i], "fetched")
           /\ ~steps[i].interrupted
           /\ i < Len(steps) \/ stepPc \in {"caught", "prompt", "idle"})
             => /\ steps[i].logs = <<"step", "start", "no_signature", "success">>
                /\ Did(steps[i], "mkdir") /\ Did(steps[i], "hoisted")

\* how many lines of a step's log carry the traceback of its failure
FailureLines(rec) == Cardinality({k \in DOMAIN rec.logs : rec.logs[k] = "failure"})

\* C23: a run that has ended returned 0 if download() returned with every
\* step succeeded, and 1 if a step was aborted or an exception reached main;
\* for an aborted step the traceback was logged once, by the step, and the
\* line main logged carries none.
C23_ExitCodes ==
    mainPc = "done" =>
        /\ exitStatus \in {0, 1}
        /\ (/\ phases = <<"prepare", "download">> /\ Len(steps) = Len(packages)
            /\ \A i \in DOMAIN steps : StepOutcome(steps[i]) = "Succeeded")
              => exitStatus = 0
        /\ (steps # <<>> /\ StepOutcome(steps[Len(steps)]) = "FailedAborted") =>
              /\ exitStatus = 1
              /\ FailureLines(steps[Len(steps)]) = 1
              /\ topLog = <<"failed">>
        /\ (phases = <<"prepare">> \/ topLog = <<"failed_traceback">>) => exitStatus = 1

\* a run has ended on a step aborted at the prompt
C23_Witness ==
    /\ mainPc = "done" /\ exitStatus = 1
    /\ steps # <<>> /\ StepOutcome(steps[Len(steps)]) = "FailedAborted"
    /\ FailureLines(steps[Len(steps)]) = 1
    /\ topLog = <<"failed">>

\* C24 (as claimed): every step logs its number and description and its
\* start before its action runs; once it has ended, its log holds one outcome,
\* the aborting line or the success line, and the success line only if its
\* action returned without an error.
C24_StepOutcomeLogged ==
    \A i \in DOMAIN steps :
        LET rec == steps[i]
            has(msg) == \E k \in DOMAIN rec.logs : rec.logs[k] = msg
        IN  /\ SubSeq(rec.logs, 1, 2) = <<"step", "start">>
            /\ ~(has("success") /\ has("aborting"))
            /\ has("success") => ~has("failure")

\* C25 (as claimed): after tracker[k] = v, tracker[k] returns v and
\* iteration yields k; after del tracker[k], tracker[k] raises and iteration
\* does not yield k; either leaves the entries of the other keys as they
\* were; a tracker reopened on the same file has the same keys and lists.
C25_StoreIsDurableMap ==
    LET others(k) == \A o \in Keys \ {k} : GetItem(store, o) = GetItem(lastAccess.before, o)
        iter == IterKeys(store)
    IN  /\ lastAccess.op = "set" =>
              /\ GetItem(store, lastAccess.key) = [error |-> None, value |-> lastAccess.value]
              /\ iter.error = None /\ lastAccess.key \in iter.keys
              /\ others(lastAccess.key)
        /\ lastAccess.op = "del" =>
              /\ GetItem(store, lastAccess.key).error = "KeyError"
              /\ iter.error = None /\ lastAccess.key \notin iter.keys
              /\ others(lastAccess.key)
        /\ lastAccess.op = "reopen" =>
              /\ iter.error = None /\ iter.keys = DOMAIN lastAccess.before
              /\ \A k \in Keys : GetItem(store, k) = GetItem(lastAccess.before, k)

\* C26 (as claimed): a stop that ends a thread's span compares against the
\* snapshot that thread's start took and appends to that span's key alone.
C26_StopUsesOwnSpan ==
    lastStop.state # "none" =>
        /\ lastStop.key = lastStop.own.key
        /\ lastStop.old = lastStop.own.list
        /\ \A k \in Keys \ {lastStop.own.key} : lastStop.after[k] = lastStop.before[k]

\* C27 (as claimed): the downloads run on a pool of workers, so while one
\* component's download is in progress and another component waits for its
\* turn, the download of the waiting component can start.
C27_DownloadsOverlap ==
    (/\ mainPc = "download"
     /\ stepPc \in {"resolve", "fetch", "verify", "extract"}
     /\ Len(steps) < Len(packages))
        => ENABLED StepCall

\* C28 (as claimed): whenever the scopes of all threads have been left, in
\* whatever order they were entered and left, os.environ and the working
\* directory are what they were before the first of them was entered.
C28_OverlappingScopesRestore ==
    (scopes = <<>> /\ lastScope.how = "returned") =>
        /\ environ = lastScope.base.environ
        /\ cwd = lastScope.base.cwd

\* C29 (as claimed): an error other than the interrupt that is raised while
\* a step is resolved or run reaches the top level only as the abort of a
\* step that asked whether to continue.
C29_ErrorsDecidedAtStep ==
    (mainPc = "raised" /\ raising # KeyboardInterrupt) =>
        /\ raising = AlreadyPrinted
        /\ steps # <<>>
        /\ steps[Len(steps)].prompted
        /\ steps[Len(steps)].answer \notin {"y", "Y"}

\* C30 (as claimed): the zip reader is tried only after the tar reader
\* failed; the call returns once a reader succeeded; it raises, and then one
\* aggregated error that carries both failures, exactly when both readers
\* failed.
C30_TarThenZip ==
    LET ok(reader) == Did(Cur, <<reader, "ok">>)
        failed(reader) == Did(Cur, <<reader, "error">>) \/ Did(Cur, <<reader, "interrupt">>)
        tried(reader) == ok(reader) \/ failed(reader)
    IN  /\ tried("zip") => failed("tar")
        /\ stepPc \in {"returned", "raised"} =>
              /\ (ok("tar") \/ ok("zip")) <=> stepPc = "returned"
              /\ (failed("tar") /\ failed("zip")) <=> stepPc = "raised"
              /\ stepPc = "raised" => raising = ExceptionGroup /\ Len(excs) = 2

\* C31 (as claimed): once a reader has extracted the archive, the call
\* returns; the extraction root holds the entries of the single top-level
\* directory when the top level was exactly one directory, and is left as
\* extracted when it was empty, a single regular file or several entries.
C31_HoistSingleDirectory ==
    (stepPc \in {"returned", "raised"} /\ (Did(Cur, <<"tar", "ok">>) \/ Did(Cur, <<"zip", "ok">>))) =>
        /\ stepPc = "returned"
        /\ Cur.to = (IF Cur.top \in {"dir", "dir_clash"} THEN "hoisted" ELSE Cur.top)

\* C32 (as claimed): a step of prepare taken while the root directory exists
\* keeps the root and the src and build directories, removes from build/ only
\* subdirectories of requested components and from src/ only entries whose
\* name starts with a requested component's name, and keeps the requested
\* package set; also when build/ is missing.
C32_PrepareDeletesOnlyStale ==
    [][(mainPc = "prepare" /\ layout.root) =>
          /\ layout'.root
          /\ layout.src => layout'.src
          /\ layout.build => layout'.build
          /\ (layout.buildSub \ layout'.buildSub) \subseteq builderPkgs
          /\ \A e \in layout.srcEntries \ layout'.srcEntries :
                \E pkg \in builderPkgs : StartsWith(e, PkgChars(pkg))
          /\ builderPkgs' = builderPkgs]_vars

\* C33 (as claimed): after an entry that failed because the working
\* directory does not exist, the environment of the process, os.environ and
\* the working directory are what they were before the entry, also when an
\* environment map was given and had been applied.
C33_FailedEntryRestores ==
    lastScope.how = "setup_raised" => lastScope.post = lastScope.pre

\* C34 (as claimed): when a scope is entered with an environment map, in
\* a process whose earlier scopes (if any) were entered and left, a process
\* launched in the scope inherits every overridden variable at its override
\* value and every other variable at the value the process had before the
\* entry.
C34_ChildInheritsMerged ==
    [][(/\ Len(scopes') = Len(scopes) + 1
        /\ scopes'[Len(scopes')].env_changed
        /\ lastScope.how # "setup_raised") =>
          LET s == scopes'[Len(scopes')]
          IN  \A v \in EnvVars :
                  procEnv'[v] = IF s.env[v] # Unset THEN s.env[v] ELSE procEnv[v]]_vars

\* C35 (as claimed): a call of make_env_for leaves the builder's flag lists,
\* template environment and search path as they were, and resolves the
\* environment a builder just constructed would resolve for the same
\* component and action.
C35_MakeEnvLeavesBuilder ==
    lastEnv.op = "make_env_for" =>
        /\ flags = lastEnv.before
        /\ lastEnv.env = MakeEnvForOn(NewBuilderFlags, lastEnv.pkg, lastEnv.action).env

\* C36 (as claimed): a stop that raised for a path that was there at the
\* start and changed or went away leaves the store as it was before the
\* call.
C36_RaisingStopStoresNothing ==
    (lastStop.state = "raised" /\ lastStop.error = "RuntimeError") =>
        lastStop.after = lastStop.before

\* C37 (as claimed): a stop called with no start since the previous stop (or
\* since the tracker was made) fails its assertion and leaves the store as it
\* was; a stop that completes ends a span that was in flight.
C37_StopNeedsStart ==
    /\ (lastStop.state # "none" /\ ~ lastStop.inFlight) =>
          /\ lastStop.state = "raised" /\ lastStop.error = "AssertionError"
          /\ lastStop.after = lastStop.before
    /\ lastStop.state = "returned" => lastStop.inFlight

\* C38 (as claimed): when the prompt of a failed step is shown, no scope of
\* the step is open, and the environment of the process, os.environ and the
\* working directory are what they were when the step started.
C38_PromptOutsideScope ==
    stepPc = "prompt" =>
        /\ scopes = <<>>
        /\ Ambient = Cur.pre

\* C39: at most one thread is inside a locked section of the Mutex; the lock
\* is held only by a thread that is inside one, so it is free again after
\* every call, also after one whose method raised; a call of mapget or getmap
\* whose method raised left the value as it was when the call took the lock.
C39_RaisingMethodReleases ==
    /\ Cardinality({t \in Threads : thr[t].pc \in {"locked", "leaving"}}) <= 1
    /\ \A t \in Threads : (mtxHolder = t) <=> (thr[t].pc \in {"locked", "leaving"})
    /\ \A i \in DOMAIN logged :
          /\ logged[i].raised => logged[i].op \in {"mapget", "getmap"}
          /\ logged[i].raised => logged[i].after = logged[i].before

\* a mapget whose method raised was followed by a completed mapget of another
\* thread that changed the value
C39_Witness ==
    \E i, j \in DOMAIN logged :
        /\ i < j
        /\ logged[i].op = "mapget" /\ logged[i].raised
        /\ logged[j].op = "mapget" /\ ~ logged[j].raised
        /\ logged[j].thread # logged[i].thread
        /\ logged[j].after = logged[j].before + 1

====
